---- MODULE Spec2Model ----
(***************************************************************************)
(* Model of prepare_data.py: the batch pipeline that loads the four raw    *)
(* accident tables, merges them into the person-grain table df, rolls the  *)
(* person and vehicle rows up per accident into df_accident and writes the *)
(* two output files; and of the part of app.py that reads the              *)
(* accident-grain file back (load_data) and applies the sidebar filters.   *)
(*                                                                         *)
(* A table is a sequence of rows (records), in file order.  A cell that    *)
(* pandas holds as NaN/None is Null; a present value v is <<v>>.  Num_Acc  *)
(* is never missing and is held plain.                                     *)
(* Quotients (means, proportions) are exact fractions [n, d].              *)
(***************************************************************************)
EXTENDS Integers, Sequences, FiniteSets, TLC

VARIABLES pc, caract, lieux, vehicules, usagers, df, df_accident,
          fichier_detaille, fichier_synthese,
          tableau, selection, df_filtered

vars == <<pc, caract, lieux, vehicules, usagers, df, df_accident,
          fichier_detaille, fichier_synthese,
          tableau, selection, df_filtered>>

\* The state of the dashboard: the table load_data returned (app.py's df),
\* the values of the sidebar widgets and the filtered view.
vars_tableau == <<tableau, selection, df_filtered>>

(***************************************************************************)
(* Bounds of the explored inputs.                                          *)
(***************************************************************************)
MaxAcc == 2
MaxLieux == 2
MaxVehicules == 2
MaxUsagers == 2

(***************************************************************************)
(* Missing values and small helpers.                                       *)
(***************************************************************************)
Null == <<>>
Some(v) == <<v>>
Val(x) == x[1]

RECURSIVE SumSeq(_)
SumSeq(s) == IF s = <<>> THEN 0 ELSE Head(s) + SumSeq(Tail(s))

RECURSIVE Concat(_)
Concat(ss) == IF ss = <<>> THEN <<>> ELSE Head(ss) \o Concat(Tail(ss))

\* Number of rows of table t whose column col holds the value v.
CountEq(t, col, v) == Len(SelectSeq(t, LAMBDA r : r[col] = Some(v)))

\* The tables of 1 to n rows taken from S (a run on an empty table is not
\* explored).
Tables(S, n) == UNION {[1..k -> S] : k \in 1..n}

(***************************************************************************)
(* Program constants.                                                      *)
(***************************************************************************)
\* calculer_age's default an_accident, written again as a literal in the
\* an_nais aggregation.
AnAccident == 2024

(***************************************************************************)
(* pandas.DataFrame.merge(R[on + cols], on=on, how='left'): every left row *)
(* is kept, in left order; a left row is followed through every right row  *)
(* that agrees with it on the key columns, in right order, and takes its    *)
(* columns cols; a left row without a match appears once, these columns     *)
(* missing.  Right rows that match no left row are not in the result.       *)
(* Missing keys match missing keys.                                         *)
(***************************************************************************)
LeftMerge(L, R, on, cols) ==
    Concat([i \in 1..Len(L) |->
        LET ms == SelectSeq(R, LAMBDA r : \A k \in on : L[i][k] = r[k])
        IN  IF ms = <<>>
            THEN << L[i] @@ [c \in cols |-> Null] >>
            ELSE [j \in 1..Len(ms) |-> L[i] @@ [c \in cols |-> ms[j][c]]]])

\* Faulty variant of a left merge: the default how='inner', where a left row
\* without a match is not in the result.
InnerMerge(L, R, on, cols) ==
    Concat([i \in 1..Len(L) |->
        LET ms == SelectSeq(R, LAMBDA r : \A k \in on : L[i][k] = r[k])
        IN  [j \in 1..Len(ms) |-> L[i] @@ [c \in cols |-> ms[j][c]]]])

\* The columns of usagers other than the join keys.
UsagerCols == {"id_usager", "grav", "catu", "sexe", "an_nais"}

\* Faulty variant: how='left' forgotten in the merge with lieux.
FusionLieux_inner(c, l) == InnerMerge(c, l, {"Num_Acc"}, {"catr"})

\* caract.merge(lieux, on='Num_Acc', how='left')
FusionLieux(c, l) == LeftMerge(c, l, {"Num_Acc"}, {"catr"})

\* df.merge(vehicules, on='Num_Acc', how='left')
FusionVehicules(d, v) ==
    LeftMerge(d, v, {"Num_Acc"}, {"id_vehicule", "num_veh"})

\* Faulty variant: the persons merged on Num_Acc alone.
FusionUsagers_sur_Num_Acc(d, u) == LeftMerge(d, u, {"Num_Acc"}, UsagerCols)

\* df.merge(usagers, on=['Num_Acc', 'id_vehicule', 'num_veh'], how='left')
FusionUsagers(d, u) ==
    LeftMerge(d, u, {"Num_Acc", "id_vehicule", "num_veh"}, UsagerCols)

\* The three merges of the Table Merger, in the order of the code.
FusionTables(c, l, v, u) ==
    FusionUsagers(FusionVehicules(FusionLieux(c, l), v), u)

(***************************************************************************)
(* Demographic deriver.                                                    *)
(***************************************************************************)
calculer_age(an_nais) ==
    IF an_nais = Null \/ an_nais = Some(-1)
    THEN Null
    ELSE Some(AnAccident - Val(an_nais))

\* pd.cut(df['age'], bins=[0, 18, 25, 35, 45, 55, 65, 100], labels=[...]) on
\* one cell: the intervals are open on the left and closed on the right
\* (right=True, include_lowest=False, the defaults of pd.cut), and an age in
\* none of them, or a missing age, gets a missing label.
bins == << 0, 18, 25, 35, 45, 55, 65, 100 >>

labels == << "0-17", "18-24", "25-34", "35-44", "45-54", "55-64", "65+" >>

tranche_age(age) ==
    IF age = Null THEN Null
    ELSE IF \E k \in 1..Len(labels) : bins[k] < Val(age) /\ Val(age) <= bins[k + 1]
         THEN Some(labels[CHOOSE k \in 1..Len(labels) :
                              bins[k] < Val(age) /\ Val(age) <= bins[k + 1]])
         ELSE Null

(***************************************************************************)
(* Code dictionary.  MAPPINGS holds, for a coded column, the label of each *)
(* code; it is written here for the coded columns the tables of this model *)
(* carry (catr, catu, grav, sexe) and for lum, a column of MAPPINGS that   *)
(* the tables of this model do not carry.  The labels are written without  *)
(* accents, except those the dashboard compares with its own literals: the *)
(* labels of agg and the month names.                                      *)
(***************************************************************************)
NonRenseigne == "Non renseigne"

MAPPINGS ==
    [lum  |-> (1 :> "Plein jour" @@ 2 :> "Crepuscule ou aube"
               @@ 3 :> "Nuit sans eclairage public"
               @@ 4 :> "Nuit avec eclairage public non allume"
               @@ 5 :> "Nuit avec eclairage public allume"),
     agg  |-> (1 :> "Hors agglomération" @@ 2 :> "En agglomération"),
     catr |-> (1 :> "Autoroute" @@ 2 :> "Route nationale"
               @@ 3 :> "Route departementale" @@ 4 :> "Voie communale"
               @@ 5 :> "Hors reseau public"
               @@ 6 :> "Parc de stationnement ouvert a la circulation publique"
               @@ 9 :> "Autre"),
     catu |-> (1 :> "Conducteur" @@ 2 :> "Passager" @@ 3 :> "Pieton"
               @@ 4 :> "Pieton en roller ou en trottinette"),
     grav |-> (1 :> "Indemne" @@ 2 :> "Tue" @@ 3 :> "Blesse hospitalise"
               @@ 4 :> "Blesse leger"),
     sexe |-> ((-1) :> NonRenseigne @@ 1 :> "Masculin" @@ 2 :> "Feminin")]

\* MAPPINGS.items(): the columns in the order of the dictionary.
MappingsItems == << "lum", "agg", "catr", "catu", "grav", "sexe" >>

\* Series.map(mapping) on one cell: the label of the code, missing when the
\* cell is missing or the code is not a key of the mapping.
map_(code, mapping) ==
    IF code # Null /\ Val(code) \in DOMAIN mapping THEN Some(mapping[Val(code)])
    ELSE Null

\* Series.fillna(v) on one cell.
fillna(x, v) == IF x = Null THEN Some(v) ELSE x

\* df[name] = value on one row: the column is added, or replaced.
SetCol(row, name, value) == [c \in {name} |-> value] @@ row

\* Faulty variant: the label of an unknown or missing code left missing.
enrichir_colonne_sans_fillna(t, colonne, mapping) ==
    IF t = <<>> \/ colonne \notin DOMAIN t[1] THEN t
    ELSE [i \in 1..Len(t) |->
            SetCol(SetCol(t[i], colonne \o "_code", t[i][colonne]),
                   colonne \o "_desc", map_(t[i][colonne], mapping))]

\* Faulty variant: a code that is not a key of the mapping erased from the
\* raw column.
enrichir_colonne_efface_inconnu(t, colonne, mapping) ==
    IF t = <<>> \/ colonne \notin DOMAIN t[1] THEN t
    ELSE [i \in 1..Len(t) |->
            SetCol(SetCol(SetCol(t[i], colonne \o "_code", t[i][colonne]),
                          colonne \o "_desc",
                          fillna(map_(t[i][colonne], mapping), NonRenseigne)),
                   colonne,
                   IF map_(t[i][colonne], mapping) = Null THEN Null
                   ELSE t[i][colonne])]

\* enrichir_colonne(df, colonne, mapping)
enrichir_colonne(t, colonne, mapping) ==
    IF t = <<>> \/ colonne \notin DOMAIN t[1] THEN t
    ELSE [i \in 1..Len(t) |->
            SetCol(SetCol(t[i], colonne \o "_code", t[i][colonne]),
                   colonne \o "_desc",
                   fillna(map_(t[i][colonne], mapping), NonRenseigne))]

\* for col, mapping in MAPPINGS.items(): df = enrichir_colonne(df, col, mapping)
\* for the first n columns of MAPPINGS.
RECURSIVE EnrichirColonnes(_, _)
EnrichirColonnes(t, n) ==
    IF n = 0 THEN t
    ELSE enrichir_colonne(EnrichirColonnes(t, n - 1), MappingsItems[n],
                          MAPPINGS[MappingsItems[n]])

EnrichirMappings(t) == EnrichirColonnes(t, Len(MappingsItems))

(***************************************************************************)
(* Temporal deriver.  A time of day is a string, written as the sequence   *)
(* of its characters; the year, month and day cells hold integers.         *)
(***************************************************************************)
Chiffres == << "0", "1", "2", "3", "4", "5", "6", "7", "8", "9" >>

EstChiffre(c) == \E d \in 1..Len(Chiffres) : Chiffres[d] = c

ValeurChiffre(c) == (CHOOSE d \in 1..Len(Chiffres) : Chiffres[d] = c) - 1

\* str.split(':')[0]: the characters before the first ':', all of them when
\* there is none.
RECURSIVE split_0(_)
split_0(s) ==
    IF s = <<>> \/ Head(s) = ":" THEN <<>>
    ELSE <<Head(s)>> \o split_0(Tail(s))

\* str.strip() of blanks, as int() does before it reads the number.
RECURSIVE lstrip(_)
lstrip(s) == IF s # <<>> /\ Head(s) = " " THEN lstrip(Tail(s)) ELSE s

RECURSIVE rstrip(_)
rstrip(s) ==
    IF s # <<>> /\ s[Len(s)] = " " THEN rstrip(SubSeq(s, 1, Len(s) - 1)) ELSE s

\* The number a non-empty string of digits writes in base 10.
RECURSIVE ValeurChiffres(_)
ValeurChiffres(s) ==
    IF s = <<>> THEN 0
    ELSE ValeurChiffres(SubSeq(s, 1, Len(s) - 1)) * 10 + ValeurChiffre(s[Len(s)])

\* int(s) of a string: blanks around, an optional sign, then digits only;
\* missing stands for the ValueError of any other string.
int_str(s) ==
    LET t     == rstrip(lstrip(s))
        signe == t # <<>> /\ Head(t) \in {"+", "-"}
        corps == IF signe THEN Tail(t) ELSE t
    IN  IF corps # <<>> /\ \A k \in 1..Len(corps) : EstChiffre(corps[k])
        THEN Some(IF signe /\ Head(t) = "-" THEN 0 - ValeurChiffres(corps)
                  ELSE ValeurChiffres(corps))
        ELSE Null

\* Faulty variant: the lower bound of the morning taken strictly.
determiner_periode_journee_borne_stricte(heure) ==
    IF heure = Null THEN NonRenseigne
    ELSE LET h == int_str(split_0(Val(heure)))
         IN  IF h = Null THEN NonRenseigne
             ELSE IF 6 < Val(h) /\ Val(h) < 12 THEN "Matin"
             ELSE IF 12 <= Val(h) /\ Val(h) < 18 THEN "Apres-midi"
             ELSE IF 18 <= Val(h) /\ Val(h) < 22 THEN "Soiree"
             ELSE "Nuit"

\* determiner_periode_journee(heure)
determiner_periode_journee(heure) ==
    IF heure = Null THEN NonRenseigne
    ELSE LET h == int_str(split_0(Val(heure)))
         IN  IF h = Null THEN NonRenseigne
             ELSE IF 6 <= Val(h) /\ Val(h) < 12 THEN "Matin"
             ELSE IF 12 <= Val(h) /\ Val(h) < 18 THEN "Apres-midi"
             ELSE IF 18 <= Val(h) /\ Val(h) < 22 THEN "Soiree"
             ELSE "Nuit"

\* datetime(year, month, day) and date.weekday(), as the standard library
\* computes them from the proleptic Gregorian ordinal of the date.
is_leap(y) == y % 4 = 0 /\ (y % 100 # 0 \/ y % 400 = 0)

days_in_month(y, m) ==
    IF m = 2 THEN (IF is_leap(y) THEN 29 ELSE 28)
    ELSE IF m \in {4, 6, 9, 11} THEN 30 ELSE 31

days_before_year(y) ==
    (y - 1) * 365 + ((y - 1) \div 4) - ((y - 1) \div 100) + ((y - 1) \div 400)

RECURSIVE days_before_month(_, _)
days_before_month(y, m) ==
    IF m = 1 THEN 0
    ELSE days_before_month(y, m - 1) + days_in_month(y, m - 1)

\* datetime(y, m, d) does not raise ValueError.
datetime_valide(y, m, d) ==
    /\ 1 <= y /\ y <= 9999
    /\ 1 <= m /\ m <= 12
    /\ 1 <= d /\ d <= days_in_month(y, m)

toordinal(y, m, d) == days_before_year(y) + days_before_month(y, m) + d

weekday(y, m, d) == (toordinal(y, m, d) + 6) % 7

\* Faulty variant: the list of the names starting on Sunday.
jours_dimanche_d_abord ==
    << "Dimanche", "Lundi", "Mardi", "Mercredi", "Jeudi", "Vendredi", "Samedi" >>

jours ==
    << "Lundi", "Mardi", "Mercredi", "Jeudi", "Vendredi", "Samedi", "Dimanche" >>

\* determiner_jour_semaine(jour, mois, an): int() of a missing cell and
\* datetime() of an invalid date raise, and the except branch answers.
determiner_jour_semaine(jour, mois, an) ==
    IF jour = Null \/ mois = Null \/ an = Null THEN NonRenseigne
    ELSE IF ~datetime_valide(Val(an), Val(mois), Val(jour)) THEN NonRenseigne
    ELSE jours[weekday(Val(an), Val(mois), Val(jour)) + 1]

\* Faulty variant: Saturday alone counted as the weekend.
est_weekend_samedi_seul(jour_semaine) ==
    IF jour_semaine \in {"Samedi"} THEN 1 ELSE 0

\* df['jour_semaine'].isin(['Samedi', 'Dimanche']).astype(int), on one cell
est_weekend(jour_semaine) ==
    IF jour_semaine \in {"Samedi", "Dimanche"} THEN 1 ELSE 0

mois_noms ==
    << "Janvier", "Février", "Mars", "Avril", "Mai", "Juin", "Juillet", "Août",
       "Septembre", "Octobre", "Novembre", "Décembre" >>

\* df['mois'].astype(int) raises when a cell of the column is missing.
astype_int_echoue(t, col) == \E i \in 1..Len(t) : t[i][col] = Null

\* df['mois'].astype(int).map(mois_noms), on one cell
mois_nom(mois) == map_(mois, mois_noms)

\* Faulty variant: the month not shifted by one before the division.
trimestre_sans_decalage(mois) == Some((Val(mois) \div 3) + 1)

\* ((df['mois'].astype(int) - 1) // 3) + 1, on one cell
trimestre(mois) == Some(((Val(mois) - 1) \div 3) + 1)

\* pd.to_datetime(an + '-' + mois + '-' + jour, errors='coerce'), on one
\* row of t: the date <<an, mois, jour>>, missing (NaT) when the text is no
\* date.  A column with a missing cell is a float column, whose astype(str)
\* writes '2024.0': no text of the table is a date then.  The years of a
\* Timestamp are 1678..2261.
to_datetime(t, i) ==
    IF \E j \in 1..Len(t) : Null \in {t[j].an, t[j].mois, t[j].jour} THEN Null
    ELSE IF /\ datetime_valide(Val(t[i].an), Val(t[i].mois), Val(t[i].jour))
            /\ Val(t[i].an) \in 1678..2261
         THEN Some(<< Val(t[i].an), Val(t[i].mois), Val(t[i].jour) >>)
         ELSE Null

\* The columns assigned before the first astype(int): date, jour_semaine,
\* periode_journee and est_weekend.
EnrichirJour(t) ==
    [i \in 1..Len(t) |->
        LET js == determiner_jour_semaine(t[i].jour, t[i].mois, t[i].an)
        IN  SetCol(SetCol(SetCol(SetCol(t[i], "date", to_datetime(t, i)),
                                 "jour_semaine", js),
                          "periode_journee", determiner_periode_journee(t[i].hrmn)),
                   "est_weekend", est_weekend(js))]

\* mois_nom and trimestre, when astype(int) does not raise.
EnrichirMois(t) ==
    [i \in 1..Len(t) |->
        SetCol(SetCol(t[i], "mois_nom", mois_nom(t[i].mois)),
               "trimestre", trimestre(t[i].mois))]

(***************************************************************************)
(* Accident aggregator: usagers.groupby('Num_Acc').agg({...}).             *)
(* Each agg_<col> is the reduction the code applies to the column <col> of *)
(* one group x (the rows of usagers of one Num_Acc, in table order).       *)
(***************************************************************************)
\* Faulty variant: the four counts taken in the order of the codes 1, 2, 3, 4.
agg_grav_ordre_des_codes(x) ==
    << CountEq(x, "grav", 1), CountEq(x, "grav", 2),
       CountEq(x, "grav", 3), CountEq(x, "grav", 4) >>

\* 'grav': ((x == 2).sum(), (x == 3).sum(), (x == 4).sum(), (x == 1).sum())
agg_grav(x) ==
    << CountEq(x, "grav", 2), CountEq(x, "grav", 3),
       CountEq(x, "grav", 4), CountEq(x, "grav", 1) >>

\* Faulty variant: the code 4 (pedestrian on roller or scooter) counted too.
agg_catu_codes_3_et_4(x) == CountEq(x, "catu", 3) + CountEq(x, "catu", 4)

\* 'catu': (x == 3).sum()
agg_catu(x) == CountEq(x, "catu", 3)

\* Faulty variant: the proportion of the sex code 2.
agg_sexe_code_2(x) ==
    IF Len(x) > 0
    THEN [n |-> CountEq(x, "sexe", 2), d |-> Len(x)]
    ELSE [n |-> 0, d |-> 1]

\* 'sexe': (x == 1).sum() / len(x) if len(x) > 0 else 0
agg_sexe(x) ==
    IF Len(x) > 0
    THEN [n |-> CountEq(x, "sexe", 1), d |-> Len(x)]
    ELSE [n |-> 0, d |-> 1]

\* 'an_nais': 2024 - x[x != -1].mean() if len(x[x != -1]) > 0 else None
\* (x != -1 keeps a missing birth year; mean() then skips it, and the mean
\* of no value at all is missing).
agg_an_nais(x) ==
    LET kept  == SelectSeq(x, LAMBDA u : u.an_nais # Some(-1))
        known == SelectSeq(kept, LAMBDA u : u.an_nais # Null)
        total == SumSeq([i \in 1..Len(known) |-> Val(known[i].an_nais)])
    IN  IF Len(kept) > 0 /\ Len(known) > 0
        THEN Some([n |-> AnAccident * Len(known) - total, d |-> Len(known)])
        ELSE Null

\* 'id_usager': 'count'  (the number of non-missing cells of the column)
agg_id_usager(x) == Len(SelectSeq(x, LAMBDA u : u.id_usager # Null))

RECURSIVE SortedSeq(_)
SortedSeq(S) ==
    IF S = {} THEN <<>>
    ELSE LET m == CHOOSE a \in S : \A b \in S : a <= b
         IN  <<m>> \o SortedSeq(S \ {m})

\* groupby('Num_Acc'): one group per Num_Acc present in the table, the
\* groups in ascending key order.
GroupKeys(t) == SortedSeq({t[i].Num_Acc : i \in 1..Len(t)})
Group(t, a) == SelectSeq(t, LAMBDA r : r.Num_Acc = a)

\* stats_usagers after the columns are renamed and gravite_stats is
\* unpacked into its four columns, by position.
StatsUsagers(u) ==
    LET keys == GroupKeys(u)
    IN  [k \in 1..Len(keys) |->
            LET x == Group(u, keys[k])
                gravite_stats == agg_grav(x)
            IN  [Num_Acc                 |-> keys[k],
                 nb_pietons              |-> Some(agg_catu(x)),
                 pct_hommes              |-> Some(agg_sexe(x)),
                 age_moyen               |-> agg_an_nais(x),
                 nb_usagers              |-> Some(agg_id_usager(x)),
                 nb_tues                 |-> Some(gravite_stats[1]),
                 nb_blesses_hospitalises |-> Some(gravite_stats[2]),
                 nb_blesses_legers       |-> Some(gravite_stats[3]),
                 nb_indemnes             |-> Some(gravite_stats[4])]]

\* vehicules.groupby('Num_Acc').size().reset_index(name='nb_vehicules')
StatsVehicules(v) ==
    LET keys == GroupKeys(v)
    IN  [k \in 1..Len(keys) |->
            [Num_Acc      |-> keys[k],
             nb_vehicules |-> Some(Len(Group(v, keys[k])))]]

\* Faulty variant: the person aggregates of an accident without a group
\* filled with 0 after the merge.
FusionStatsUsagers_fillna_0(c, su) ==
    LET m == LeftMerge(c, su, {"Num_Acc"},
                       {"nb_pietons", "pct_hommes", "age_moyen", "nb_usagers",
                        "nb_tues", "nb_blesses_hospitalises",
                        "nb_blesses_legers", "nb_indemnes"})
    IN  [i \in 1..Len(m) |->
            [col \in DOMAIN m[i] |->
                IF col # "Num_Acc" /\ m[i][col] = Null THEN Some(0)
                ELSE m[i][col]]]

\* caract.merge(stats_usagers, on='Num_Acc', how='left')
FusionStatsUsagers(c, su) ==
    LeftMerge(c, su, {"Num_Acc"},
              {"nb_pietons", "pct_hommes", "age_moyen", "nb_usagers",
               "nb_tues", "nb_blesses_hospitalises", "nb_blesses_legers",
               "nb_indemnes"})

\* df_accident.merge(stats_vehicules, on='Num_Acc', how='left')
FusionStatsVehicules(d, sv) ==
    LeftMerge(d, sv, {"Num_Acc"}, {"nb_vehicules"})

\* Arithmetic on columns that may hold missing values: a missing operand
\* makes the result missing.
Mul(a, k) == IF a = Null THEN Null ELSE Some(Val(a) * k)
Add(a, b) == IF a = Null \/ b = Null THEN Null ELSE Some(Val(a) + Val(b))
\* A comparison with a missing value is false.
Gt0(a) == a # Null /\ Val(a) > 0

\* Faulty variant: the weights of the killed and of the hospitalized exchanged.
score_gravite_poids_echanges(row) ==
    Add(Add(Mul(row.nb_tues, 30), Mul(row.nb_blesses_hospitalises, 100)),
        Mul(row.nb_blesses_legers, 10))

\* df_accident['score_gravite']
score_gravite(row) ==
    Add(Add(Mul(row.nb_tues, 100), Mul(row.nb_blesses_hospitalises, 30)),
        Mul(row.nb_blesses_legers, 10))

\* Faulty variant: the hospitalized tested before the killed.
categoriser_gravite_grave_d_abord(row) ==
    IF Gt0(row.nb_blesses_hospitalises) THEN "Grave"
    ELSE IF Gt0(row.nb_tues) THEN "Mortel"
    ELSE IF Gt0(row.nb_blesses_legers) THEN "Leger"
    ELSE "Materiel uniquement"

\* The labels are written without their accents ('Leger' is the code's
\* 'Léger', 'Materiel uniquement' its 'Matériel uniquement').
categoriser_gravite(row) ==
    IF Gt0(row.nb_tues) THEN "Mortel"
    ELSE IF Gt0(row.nb_blesses_hospitalises) THEN "Grave"
    ELSE IF Gt0(row.nb_blesses_legers) THEN "Leger"
    ELSE "Materiel uniquement"

\* Faulty variant: >= in place of >.
accident_mortel_ou_egal(row) ==
    IF row.nb_tues # Null /\ Val(row.nb_tues) >= 0 THEN 1 ELSE 0

\* (df_accident['nb_tues'] > 0).astype(int)
accident_mortel(row) == IF Gt0(row.nb_tues) THEN 1 ELSE 0

\* Faulty variant: the location rows merged without drop_duplicates.
lieux_enrichi_sans_drop_duplicates(l) == l

\* lieux.drop_duplicates('Num_Acc', keep='first')
lieux_enrichi(l) ==
    LET firsts == SelectSeq([i \in 1..Len(l) |-> i],
                            LAMBDA i : \A j \in 1..(i - 1) :
                                           l[j].Num_Acc # l[i].Num_Acc)
    IN  [k \in 1..Len(firsts) |-> l[firsts[k]]]

\* df_accident.merge(lieux_enrichi[['Num_Acc', ..., 'catr', ...]],
\*                   on='Num_Acc', how='left')
FusionLieuxEnrichi(d, le) == LeftMerge(d, le, {"Num_Acc"}, {"catr"})

\* Section 4 of main: the accident-grain table.
AggregerAccidents(c, l, v, u) ==
    LET merged == FusionStatsVehicules(
                      FusionStatsUsagers(c, StatsUsagers(u)), StatsVehicules(v))
        scored == [i \in 1..Len(merged) |-> merged[i] @@
                      [score_gravite |-> score_gravite(merged[i])]]
        classed == [i \in 1..Len(scored) |-> scored[i] @@
                      [categorie_gravite |-> categoriser_gravite(scored[i]),
                       accident_mortel   |-> accident_mortel(scored[i])]]
    IN  EnrichirMois(EnrichirJour(
            EnrichirMappings(FusionLieuxEnrichi(classed, lieux_enrichi(l)))))

(***************************************************************************)
(* The raw tables the runs are explored on.  Accidents are numbered        *)
(* 1..MaxAcc; caract holds one row for each of the first k of them, so an  *)
(* accident of 1..MaxAcc beyond k is one that the other tables may name    *)
(* and caract does not (an orphaned foreign key).                          *)
(***************************************************************************)
NumAccs == 1..MaxAcc

\* The time of day "14:30".
HeureDeReference == Some(<< "1", "4", ":", "3", "0" >>)

\* The text of a cell, one character per element.
LatDeReference  == << "4", "8", ",", "8", "5" >>
LongDeReference == << "2", ",", "3", "5" >>

\* The accident row of number i, on Sunday 2024-07-14 at 14:30, in Paris, in
\* a built-up area.
CaractDeReference(i) ==
    [Num_Acc |-> i, an |-> Some(2024), mois |-> Some(7), jour |-> Some(14),
     hrmn |-> HeureDeReference, dep |-> Some(<< "7", "5" >>), agg |-> Some(2),
     lat |-> Some(LatDeReference), long |-> Some(LongDeReference)]

CaractTables == {[i \in 1..k |-> CaractDeReference(i)] : k \in 1..MaxAcc}

LieuxRows == [Num_Acc : NumAccs, catr : {Some(1), Some(2)}]

VehiculesRows ==
    [Num_Acc : NumAccs, id_vehicule : {Some(1), Some(2)}, num_veh : {Some("A01")}]

\* One location row for every accident number.
UnLieuParAccident == [i \in 1..MaxAcc |-> [Num_Acc |-> i, catr |-> Some(1)]]

\* One vehicle "A01" with id_vehicule 1 for every accident number.
UnVehiculeParAccident ==
    [i \in 1..MaxAcc |->
        [Num_Acc |-> i, id_vehicule |-> Some(1), num_veh |-> Some("A01")]]

\* Vehicle keys of a person row: those of a vehicle, a key that differs from
\* a vehicle's in num_veh only, and missing keys.
CleVehicule ==
    { <<Some(1), Some("A01")>>, <<Some(2), Some("A01")>>,
      <<Some(1), Some("B01")>>, <<Null, Null>> }

\* Person rows whose join keys vary.
UsagersRowsFusion ==
    { [Num_Acc |-> a, id_vehicule |-> k[1], num_veh |-> k[2],
       id_usager |-> Some(1), grav |-> Some(1), catu |-> Some(1),
       sexe |-> Some(1), an_nais |-> Some(1990)] :
      a \in NumAccs, k \in CleVehicule }

\* Person rows whose severity code and person identifier vary; -1 is a code
\* the raw file carries that is not a key of the mapping of grav.
UsagersRowsGravite ==
    { [Num_Acc |-> a, id_vehicule |-> Some(1), num_veh |-> Some("A01"),
       id_usager |-> u, grav |-> g, catu |-> Some(1),
       sexe |-> Some(1), an_nais |-> Some(1990)] :
      a \in NumAccs, u \in {Some(1), Null},
      g \in {Some(1), Some(2), Some(3), Some(4), Some(-1), Null} }

\* Person rows whose sex code, birth year and person identifier vary.
UsagersRowsDemographie ==
    { [Num_Acc |-> a, id_vehicule |-> Some(1), num_veh |-> Some("A01"),
       id_usager |-> u, grav |-> Some(1), catu |-> Some(1),
       sexe |-> s, an_nais |-> n] :
      a \in NumAccs, u \in {Some(1), Null}, s \in {Some(1), Some(2)},
      n \in {Some(1990), Some(2000), Some(-1), Null} }

\* One person per accident number, in the vehicle of the accident.
UnUsagerParAccident ==
    [i \in 1..MaxAcc |->
        [Num_Acc |-> i, id_vehicule |-> Some(1), num_veh |-> Some("A01"),
         id_usager |-> Some(i), grav |-> Some(4), catu |-> Some(1),
         sexe |-> Some(1), an_nais |-> Some(1990)]]

\* Vehicle tables whose rows are of any accident, each row a vehicle of its
\* own (id_vehicule is the position of the row).
VehiculesTablesComptages ==
    UNION { { [i \in 1..k |->
                 [Num_Acc |-> f[i], id_vehicule |-> Some(i),
                  num_veh |-> Some("A01")]] : f \in [1..k -> NumAccs] } :
            k \in 1..MaxVehicules }

\* Person rows whose user category varies: driver, pedestrian, pedestrian on
\* roller or scooter, missing.
UsagersRowsComptages ==
    { [Num_Acc |-> a, id_vehicule |-> Some(1), num_veh |-> Some("A01"),
       id_usager |-> Some(1), grav |-> Some(4), catu |-> c,
       sexe |-> Some(1), an_nais |-> Some(1990)] :
      a \in NumAccs, c \in {Some(1), Some(3), Some(4), Null} }

\* Birth years of the ages -1 to 101, the code -1 and a missing year.
AnneesNaissance ==
    {Some(y) : y \in (AnAccident - 101)..(AnAccident + 1)} \cup {Some(-1), Null}

\* One person per accident number, the birth year of the first one varying.
UsagersTablesAges ==
    { [i \in 1..MaxAcc |->
          IF i = 1 THEN [UnUsagerParAccident[i] EXCEPT !.an_nais = n]
          ELSE UnUsagerParAccident[i]] : n \in AnneesNaissance }

\* Year, month and day cells: ranges that are not validated (a year 0,
\* months 0 and 13, days 0 and 32) and missing cells; the years hold a leap
\* year, a common year, and the century years 1900 and 2000.
Annees == {Some(0), Some(1900), Some(2000), Some(2023), Some(2024), Null}
Mois == {Some(m) : m \in 0..13} \cup {Null}
Jours == {Some(d) : d \in 0..32} \cup {Null}

\* "HH:30", the hour h on two digits.
HeureStr(h) ==
    << Chiffres[(h \div 10) + 1], Chiffres[(h % 10) + 1], ":", "3", "0" >>

\* Times of day of the 24 hours, and "7:05".
HeuresValides ==
    {Some(HeureStr(h)) : h \in 0..23} \cup {Some(<< "7", ":", "0", "5" >>)}

\* A missing time, "ab:cd", ":30", "1430", "25:00", "24:00" and "-1:00".
HeuresInvalides ==
    { Null,
      Some(<< "a", "b", ":", "c", "d" >>),
      Some(<< ":", "3", "0" >>),
      Some(<< "1", "4", "3", "0" >>),
      Some(<< "2", "5", ":", "0", "0" >>),
      Some(<< "2", "4", ":", "0", "0" >>),
      Some(<< "-", "1", ":", "0", "0" >>) }

\* The date and time cells of one accident row: any date at the reference
\* time, or the reference date at any time.
CellulesTemporelles ==
    [an : Annees, mois : Mois, jour : Jours, hrmn : {HeureDeReference}]
    \cup [an : {Some(2024)}, mois : {Some(7)}, jour : {Some(14)},
          hrmn : HeuresValides \cup HeuresInvalides]

\* caract with the date and time cells of one of its rows drawn from
\* CellulesTemporelles, its other rows at the reference date and time.
CaractTablesTemporel ==
    { [i \in 1..k |->
          IF i = j THEN x @@ CaractDeReference(i) ELSE CaractDeReference(i)] :
      k \in 1..MaxAcc, j \in 1..MaxAcc, x \in CellulesTemporelles }

(***************************************************************************)
(* The run of main(), one action per numbered section of the script.       *)
(***************************************************************************)
Init ==
    /\ pc = "chargement"
    /\ caract = <<>>
    /\ lieux = <<>>
    /\ vehicules = <<>>
    /\ usagers = <<>>
    /\ df = <<>>
    /\ df_accident = <<>>
    /\ fichier_detaille = Null
    /\ fichier_synthese = Null
    /\ tableau = <<>>
    /\ selection = [date_range |-> <<>>, selected_dept |-> {},
                    selected_severities |-> {}, selected_road |-> "Tous",
                    selected_agg |-> "Tous"]
    /\ df_filtered = <<>>

\* 1. Chargement des donnees: the four read_csv calls; C, L, V, U are the
\* contents the four files may have.
LectureReussie(C, L, V, U) ==
    /\ pc = "chargement"
    /\ \E c \in C, l \in L, v \in V, u \in U :
          /\ caract' = c
          /\ lieux' = l
          /\ vehicules' = v
          /\ usagers' = u
    /\ pc' = "fusion"
    /\ UNCHANGED <<df, df_accident, fichier_detaille, fichier_synthese>>
    /\ UNCHANGED vars_tableau

\* One of the four files is missing or unreadable: read_csv raises on it,
\* after the n files before it (caract, lieux, vehicules, in this order)
\* were read, and the run ends there.
LectureEchouee(C, L, V) ==
    /\ pc = "chargement"
    /\ \E n \in 0..3, c \in C, l \in L, v \in V :
          /\ caract' = IF n >= 1 THEN c ELSE <<>>
          /\ lieux' = IF n >= 2 THEN l ELSE <<>>
          /\ vehicules' = IF n >= 3 THEN v ELSE <<>>
          /\ usagers' = <<>>
    /\ pc' = "echec_chargement"
    /\ UNCHANGED <<df, df_accident, fichier_detaille, fichier_synthese>>
    /\ UNCHANGED vars_tableau

Chargement(C, L, V, U) == LectureReussie(C, L, V, U) \/ LectureEchouee(C, L, V)

\* Faulty variant: the person-grain file written as soon as the tables are
\* merged.
Fusion_ecrit_detaille ==
    /\ pc = "fusion"
    /\ df' = FusionTables(caract, lieux, vehicules, usagers)
    /\ fichier_detaille' = Some(df')
    /\ pc' = "enrichissement"
    /\ UNCHANGED <<caract, lieux, vehicules, usagers, df_accident,
                   fichier_synthese>>
    /\ UNCHANGED vars_tableau

\* Faulty variant: the persons table put in reverse order, in place, before
\* it is merged.
Fusion_inverse_usagers ==
    /\ pc = "fusion"
    /\ usagers' = [i \in 1..Len(usagers) |-> usagers[Len(usagers) + 1 - i]]
    /\ df' = FusionTables(caract, lieux, vehicules, usagers')
    /\ pc' = "enrichissement"
    /\ UNCHANGED <<caract, lieux, vehicules, df_accident,
                   fichier_detaille, fichier_synthese>>
    /\ UNCHANGED vars_tableau

\* 2. Fusion des donnees.
Fusion ==
    /\ pc = "fusion"
    /\ df' = FusionTables(caract, lieux, vehicules, usagers)
    /\ pc' = "enrichissement"
    /\ UNCHANGED <<caract, lieux, vehicules, usagers, df_accident,
                   fichier_detaille, fichier_synthese>>
    /\ UNCHANGED vars_tableau

\* 3. Enrichissement des donnees (the columns derived on df).  When a cell
\* of mois is missing, astype(int) raises after jour_semaine, periode_journee
\* and est_weekend were assigned, and the run ends there.
Enrichissement ==
    /\ pc = "enrichissement"
    /\ IF astype_int_echoue(df, "mois")
       THEN /\ df' = EnrichirJour(df)
            /\ pc' = "echec_enrichissement"
       ELSE /\ df' = EnrichirMappings(
                        [i \in 1..Len(df) |->
                            LET row == EnrichirMois(EnrichirJour(df))[i]
                            IN  row @@ [age |-> calculer_age(row.an_nais),
                                        tranche_age |->
                                            tranche_age(calculer_age(row.an_nais))]])
            /\ pc' = "agregations"
    /\ UNCHANGED <<caract, lieux, vehicules, usagers, df_accident,
                   fichier_detaille, fichier_synthese>>
    /\ UNCHANGED vars_tableau

\* 4. Agregations par accident.  Every accident row is in df, so the
\* astype(int) of this step has no missing cell when the run gets here.
Agregations ==
    /\ pc = "agregations"
    /\ df_accident' = AggregerAccidents(caract, lieux, vehicules, usagers)
    /\ pc' = "sauvegarde"
    /\ UNCHANGED <<caract, lieux, vehicules, usagers, df,
                   fichier_detaille, fichier_synthese>>
    /\ UNCHANGED vars_tableau

\* 5. Sauvegarde: the two to_csv calls, the person-grain file first.
SauvegardeDetaille ==
    /\ pc = "sauvegarde"
    /\ fichier_detaille' = Some(df)
    /\ pc' = "sauvegarde_synthese"
    /\ UNCHANGED <<caract, lieux, vehicules, usagers, df, df_accident,
                   fichier_synthese>>
    /\ UNCHANGED vars_tableau

SauvegardeSynthese ==
    /\ pc = "sauvegarde_synthese"
    /\ fichier_synthese' = Some(df_accident)
    /\ pc' = "termine"
    /\ UNCHANGED <<caract, lieux, vehicules, usagers, df, df_accident,
                   fichier_detaille>>
    /\ UNCHANGED vars_tableau

Sauvegarde == SauvegardeDetaille \/ SauvegardeSynthese

Etapes == Fusion \/ Enrichissement \/ Agregations \/ Sauvegarde

\* Runs on tables whose join keys vary.
ChargementFusion ==
    Chargement(CaractTables, Tables(LieuxRows, MaxLieux),
               Tables(VehiculesRows, MaxVehicules),
               Tables(UsagersRowsFusion, MaxUsagers))

Next == ChargementFusion \/ Etapes

Spec == Init /\ [][Next]_vars

\* Runs on tables whose severity codes vary.
ChargementGravite ==
    Chargement(CaractTables, {UnLieuParAccident}, {UnVehiculeParAccident},
               Tables(UsagersRowsGravite, MaxUsagers))

NextGravite == ChargementGravite \/ Etapes

SpecGravite == Init /\ [][NextGravite]_vars

\* Runs on tables whose demographic columns vary.
ChargementDemographie ==
    Chargement(CaractTables, {UnLieuParAccident}, {UnVehiculeParAccident},
               Tables(UsagersRowsDemographie, MaxUsagers))

NextDemographie == ChargementDemographie \/ Etapes

SpecDemographie == Init /\ [][NextDemographie]_vars

\* Runs on tables whose date and time cells vary.
ChargementTemporel ==
    Chargement(CaractTablesTemporel, {UnLieuParAccident},
               {UnVehiculeParAccident}, {UnUsagerParAccident})

NextTemporel == ChargementTemporel \/ Etapes

SpecTemporel == Init /\ [][NextTemporel]_vars

\* Runs on tables whose user categories, vehicle rows and birth years vary.
ChargementComptages ==
    Chargement(CaractTables, {UnLieuParAccident}, VehiculesTablesComptages,
               Tables(UsagersRowsComptages, MaxUsagers) \cup UsagersTablesAges)

NextComptages == ChargementComptages \/ Etapes

SpecComptages == Init /\ [][NextComptages]_vars

\* The script run again after a complete run, on the same four files: the
\* tables read are the same, the tables in memory start empty and the two
\* output files of the first run are on disk.
Relance ==
    /\ pc = "termine"
    /\ pc' = "fusion"
    /\ df' = <<>>
    /\ df_accident' = <<>>
    /\ UNCHANGED <<caract, lieux, vehicules, usagers,
                   fichier_detaille, fichier_synthese>>
    /\ UNCHANGED vars_tableau

\* Runs, possibly repeated, on tables whose severity codes vary.
NextRelance == ChargementGravite \/ Etapes \/ Relance

SpecRelance == Init /\ [][NextRelance]_vars

(***************************************************************************)
(* Dashboard (app.py).  load_data reads the accident-grain file the        *)
(* pipeline wrote, makes the coordinates numeric and numbers the months;   *)
(* the sidebar filters then cut the loaded table down to the filtered      *)
(* view.  A text cell is a sequence of characters.                         *)
(***************************************************************************)
\* The number m * 10^(-e), written with no trailing zero after the point.
RECURSIVE Decimal(_, _)
Decimal(m, e) ==
    IF e > 0 /\ m % 10 = 0 THEN Decimal(m \div 10, e - 1) ELSE [m |-> m, e |-> e]

\* A cell of a coordinate column as pandas holds it: the str of an object
\* column, or the float of a float64 column.
Texte(s) == [type |-> "str", txt |-> s, val |-> Decimal(0, 0)]

Flottant(v) == [type |-> "float", txt |-> <<>>, val |-> v]

\* float(s) of a string: blanks around, an optional sign, digits with at most
\* one point; missing stands for the ValueError of any other string.  The
\* strings explored write no exponent and no 'nan' or 'inf'.
float_str(s) ==
    LET t        == rstrip(lstrip(s))
        signe    == t # <<>> /\ Head(t) \in {"+", "-"}
        corps    == IF signe THEN Tail(t) ELSE t
        points   == {k \in 1..Len(corps) : corps[k] = "."}
        chiffres == SelectSeq(corps, EstChiffre)
        m        == ValeurChiffres(chiffres)
    IN  IF /\ chiffres # <<>>
           /\ Cardinality(points) <= 1
           /\ \A k \in 1..Len(corps) : EstChiffre(corps[k]) \/ corps[k] = "."
        THEN Some(Decimal(IF signe /\ Head(t) = "-" THEN 0 - m ELSE m,
                          IF points = {} THEN 0
                          ELSE Len(corps) - (CHOOSE k \in points : TRUE)))
        ELSE Null

\* str.replace(old, new), for strings old and new of one character.
str_replace(s, old, new) == [k \in 1..Len(s) |-> IF s[k] = old THEN new ELSE s[k]]

\* pd.read_csv infers the type of a column from its cells: the column is of
\* dtype object, its cells kept as the text written, when a present cell
\* writes no number; it is numeric otherwise.
dtype_object(t, col) ==
    \E i \in 1..Len(t) : t[i][col] # Null /\ float_str(Val(t[i][col])) = Null

\* The column col of the file t as read_csv returns it, on row i.
read_csv_cell(t, i, col) ==
    IF t[i][col] = Null THEN Null
    ELSE IF dtype_object(t, col) THEN Some(Texte(Val(t[i][col])))
    ELSE Some(Flottant(Val(float_str(Val(t[i][col])))))

\* The number a non-negative integer n writes in base 10.
RECURSIVE str_int(_)
str_int(n) ==
    IF n < 10 THEN << Chiffres[n + 1] >>
    ELSE str_int(n \div 10) \o << Chiffres[(n % 10) + 1] >>

\* The text str(d) and astype(str) give for a cell of the column dep as
\* read_csv returns it: the text written when the column is of dtype object;
\* the number without its leading zeros when every cell is a whole number
\* (int64); the same followed by '.0' when a cell is missing besides
\* (float64).  The codes explored are whole numbers or hold a letter.
dep_str(t, i) ==
    IF t[i].dep = Null THEN Null
    ELSE IF dtype_object(t, "dep") THEN t[i].dep
    ELSE IF \E j \in 1..Len(t) : t[j].dep = Null
         THEN Some(str_int(Val(float_str(Val(t[i].dep))).m) \o << ".", "0" >>)
         ELSE Some(str_int(Val(float_str(Val(t[i].dep))).m))

\* pd.read_csv('dataset/accidents_complet_synthese.csv') then
\* pd.to_datetime(df['date']): the rows of the file, the coordinates and the
\* department typed by the inference; the date, written 'YYYY-MM-DD', is read
\* back to the date it writes, and the other cells to the value written.
read_csv(t) ==
    [i \in 1..Len(t) |->
        SetCol(SetCol(SetCol(t[i], "lat", read_csv_cell(t, i, "lat")),
                      "long", read_csv_cell(t, i, "long")),
               "dep", dep_str(t, i))]

\* .astype(str).str.replace(',', '.').astype(float), on one cell of the file:
\* a missing cell is written 'nan' and read back missing.
astype_float(cell) ==
    IF cell = Null THEN Null
    ELSE float_str(str_replace(Val(cell), ",", "."))

\* astype(float) raises ValueError on a cell that writes no number.
astype_float_echoue(t, col) ==
    \E i \in 1..Len(t) : t[i][col] # Null /\ astype_float(t[i][col]) = Null

month_order ==
    "Janvier" :> 1 @@ "Fevrier" :> 2 @@ "Mars" :> 3 @@ "Avril" :> 4 @@ "Mai" :> 5
    @@ "Juin" :> 6 @@ "Juillet" :> 7 @@ "Aout" :> 8 @@ "Septembre" :> 9
    @@ "Octobre" :> 10 @@ "Novembre" :> 11 @@ "Decembre" :> 12

\* load_data raises: both conversions run when lat is of dtype object.
load_data_echoue(t) ==
    /\ dtype_object(t, "lat")
    /\ astype_float_echoue(t, "lat") \/ astype_float_echoue(t, "long")

\* load_data, when it does not raise, on the file t.
load_data(t) ==
    [i \in 1..Len(t) |->
        LET convertie(col) ==
                IF ~dtype_object(t, "lat") THEN read_csv(t)[i][col]
                ELSE IF t[i][col] = Null THEN Null
                ELSE Some(Flottant(Val(astype_float(t[i][col]))))
        IN  SetCol(SetCol(SetCol(read_csv(t)[i], "lat", convertie("lat")),
                          "long", convertie("long")),
                   "mois_num", map_(t[i].mois_nom, month_order))]

\* The dashboard started after a complete run of the pipeline.
LoadData ==
    /\ pc = "termine"
    /\ IF load_data_echoue(Val(fichier_synthese))
       THEN /\ tableau' = <<>>
            /\ pc' = "echec_load_data"
       ELSE /\ tableau' = load_data(Val(fichier_synthese))
            /\ pc' = "tableau_charge"
    /\ UNCHANGED <<caract, lieux, vehicules, usagers, df, df_accident,
                   fichier_detaille, fichier_synthese, selection, df_filtered>>

\* What varies from one accident to the other in the runs the dashboard is
\* explored on: the month, the department, the built-up area code, the two
\* coordinates, the road category of its location row and the severity code
\* of its person.
ProfilDeReference ==
    [mois |-> 7, dep |-> << "7", "5" >>, agg |-> 2,
     lat |-> Some(LatDeReference), long |-> Some(LongDeReference),
     catr |-> 1, grav |-> 4]

\* Every month of the year.
ProfilsMois == {[ProfilDeReference EXCEPT !.mois = m] : m \in 1..12}

\* Coordinates written with a comma, with a point, with no number at all, or
\* missing.
Latitudes ==
    { Some(LatDeReference), Some(<< "4", "8", ".", "8", "5" >>),
      Some(<< "a", "b", "c" >>), Null }

Longitudes ==
    { Some(LongDeReference), Some(<< "2", ".", "3", "5" >>), Some(<< "x" >>) }

ProfilsCoordonnees ==
    {[ProfilDeReference EXCEPT !.lat = la, !.long = lo] :
        la \in Latitudes, lo \in Longitudes}

\* Accidents that differ from the reference in what one filter tests.
ProfilsFiltres ==
    { [ProfilDeReference EXCEPT !.dep = << "2", "A" >>],
      [ProfilDeReference EXCEPT !.agg = 1],
      [ProfilDeReference EXCEPT !.catr = 2],
      [ProfilDeReference EXCEPT !.grav = 2] }

Profils == ProfilsMois \cup ProfilsCoordonnees \cup ProfilsFiltres

\* The four raw tables of the accidents of profiles p, one location row, one
\* vehicle and one person each.
CaractDesProfils(p) ==
    [i \in 1..Len(p) |->
        [CaractDeReference(i) EXCEPT !.mois = Some(p[i].mois),
                                     !.dep = Some(p[i].dep),
                                     !.agg = Some(p[i].agg),
                                     !.lat = p[i].lat, !.long = p[i].long]]

LieuxDesProfils(p) ==
    [i \in 1..Len(p) |-> [Num_Acc |-> i, catr |-> Some(p[i].catr)]]

VehiculesDesProfils(p) == [i \in 1..Len(p) |-> UnVehiculeParAccident[i]]

UsagersDesProfils(p) ==
    [i \in 1..Len(p) |-> [UnUsagerParAccident[i] EXCEPT !.grav = Some(p[i].grav)]]

ChargementTableau ==
    \E p \in Tables(Profils, MaxAcc) :
        Chargement({CaractDesProfils(p)}, {LieuxDesProfils(p)},
                   {VehiculesDesProfils(p)}, {UsagersDesProfils(p)})

\* The order of two dates <<year, month, day>>.
DateLe(a, b) ==
    \/ a[1] < b[1]
    \/ a[1] = b[1] /\ a[2] < b[2]
    \/ a[1] = b[1] /\ a[2] = b[2] /\ a[3] <= b[3]

\* The values the sidebar widgets can take on the loaded table t.  The dates
\* picked are dates of the table: both ends of the range, or its first end
\* alone while the second is not picked yet.
DateRanges(t) ==
    LET dates == {Val(t[i].date) : i \in {j \in 1..Len(t) : t[j].date # Null}}
    IN  {r \in dates \X dates : DateLe(r[1], r[2])}
        \cup {<<a>> : a \in dates}

\* sorted([str(d) for d in df['dep'].dropna().unique() if d != ''])
departments(t) ==
    {Val(t[i].dep) : i \in {j \in 1..Len(t) : t[j].dep # Null}} \ {<<>>}

\* df['categorie_gravite'].unique().tolist()
severities(t) == {t[i].categorie_gravite : i \in 1..Len(t)}

\* ['Tous'] + df['catr_desc'].dropna().unique().tolist()
road_types(t) ==
    {"Tous"} \cup {Val(t[i].catr_desc) : i \in {j \in 1..Len(t) : t[j].catr_desc # Null}}

agg_types == {"Tous", "En agglomération", "Hors agglomération"}

\* if len(date_range) == 2: the rows dated from start_date to end_date
FiltreDate(t, date_range) ==
    IF Len(date_range) = 2
    THEN SelectSeq(t, LAMBDA r : /\ r.date # Null
                                 /\ DateLe(date_range[1], Val(r.date))
                                 /\ DateLe(Val(r.date), date_range[2]))
    ELSE t

\* if selected_dept: df_filtered['dep'].astype(str).isin(selected_dept); a
\* missing department is written 'nan', which is no option of the widget.
FiltreDepartement(t, selected_dept) ==
    IF selected_dept # {}
    THEN SelectSeq(t, LAMBDA r : r.dep # Null /\ Val(r.dep) \in selected_dept)
    ELSE t

\* if selected_severities: df_filtered['categorie_gravite'].isin(...)
FiltreGravite(t, selected_severities) ==
    IF selected_severities # {}
    THEN SelectSeq(t, LAMBDA r : r.categorie_gravite \in selected_severities)
    ELSE t

\* if selected_road != 'Tous': df_filtered['catr_desc'] == selected_road
FiltreRoute(t, selected_road) ==
    IF selected_road # "Tous"
    THEN SelectSeq(t, LAMBDA r : r.catr_desc = Some(selected_road))
    ELSE t

\* Faulty variant: the zone filter not applied.
FiltreZone_sans_effet(t, selected_agg) == t

\* if selected_agg != 'Tous': df_filtered['agg_desc'] == selected_agg
FiltreZone(t, selected_agg) ==
    IF selected_agg # "Tous"
    THEN SelectSeq(t, LAMBDA r : r.agg_desc = Some(selected_agg))
    ELSE t

\* One run of the script of the dashboard on the widgets' values.  Every
\* later run computes the view from the loaded table again, which
\* load_data's cache keeps: it is this step on other values.
Filtrer ==
    /\ pc = "tableau_charge"
    /\ \E dr \in DateRanges(tableau), sd \in SUBSET departments(tableau),
          ss \in SUBSET severities(tableau), sr \in road_types(tableau),
          sa \in agg_types :
          /\ selection' = [date_range |-> dr, selected_dept |-> sd,
                           selected_severities |-> ss, selected_road |-> sr,
                           selected_agg |-> sa]
          /\ df_filtered' =
                 FiltreZone(
                     FiltreRoute(
                         FiltreGravite(
                             FiltreDepartement(FiltreDate(tableau, dr), sd), ss),
                         sr),
                     sa)
    /\ pc' = "tableau_filtre"
    /\ UNCHANGED <<caract, lieux, vehicules, usagers, df, df_accident,
                   fichier_detaille, fichier_synthese, tableau>>

\* A run of the pipeline, then the dashboard on the file it wrote.
NextTableau == ChargementTableau \/ Etapes \/ LoadData \/ Filtrer

SpecTableau == Init /\ [][NextTableau]_vars

(***************************************************************************)
(* Vocabulary of the properties: the raw rows of one accident, counted     *)
(* directly on the raw tables.                                             *)
(***************************************************************************)
\* The accident-grain table is computed.
AccidentsCalcules == pc \in {"sauvegarde", "sauvegarde_synthese", "termine"}

\* Both output files are written.
Termine == pc = "termine"

\* The person-grain table carries its derived columns.
DfEnrichi ==
    pc \in {"agregations", "sauvegarde", "sauvegarde_synthese", "termine"}

\* The person-grain table carries jour_semaine, periode_journee and
\* est_weekend: the enrichment step completed, or failed after them.
DfJourEnrichi == DfEnrichi \/ pc = "echec_enrichissement"

\* The run ended on an exception.
Echec == pc \in {"echec_chargement", "echec_enrichissement"}

\* Positions of the person rows of accident a in the raw persons table.
UsagersDe(a) == {i \in 1..Len(usagers) : usagers[i].Num_Acc = a}

\* Number of person rows of accident a whose severity code is g.
NbGrav(a, g) == Cardinality({i \in UsagersDe(a) : usagers[i].grav = Some(g)})

\* Sum of f[i] over the i of S.
RECURSIVE SumOver(_, _)
SumOver(S, f) ==
    IF S = {} THEN 0
    ELSE LET i == CHOOSE j \in S : TRUE IN f[i] + SumOver(S \ {i}, f)

\* Two fractions denote the same number.
FracEq(p, q) == p.n * q.d = q.n * p.d

\* x is a present value greater than 0.
Positive(x) == Len(x) = 1 /\ x[1] > 0

(***************************************************************************)
(* C1.  On every row of the accident-grain table, score_gravite equals     *)
(* nb_tues*100 + nb_blesses_hospitalises*30 + nb_blesses_legers*10 of the  *)
(* same row; on the row of an accident without person rows the three       *)
(* counts are missing and so is the score.                                 *)
(***************************************************************************)
C1_ScoreGravite ==
    AccidentsCalcules =>
        \A i \in 1..Len(df_accident) :
            LET r == df_accident[i]
            IN  IF UsagersDe(r.Num_Acc) = {}
                THEN /\ r.nb_tues = Null
                     /\ r.nb_blesses_hospitalises = Null
                     /\ r.nb_blesses_legers = Null
                     /\ r.score_gravite = Null
                ELSE /\ Len(r.nb_tues) = 1
                     /\ Len(r.nb_blesses_hospitalises) = 1
                     /\ Len(r.nb_blesses_legers) = 1
                     /\ r.score_gravite =
                          << r.nb_tues[1] * 100
                             + r.nb_blesses_hospitalises[1] * 30
                             + r.nb_blesses_legers[1] * 10 >>

\* An accident with a killed and a lightly injured person (score 110)
\* beside an accident without person rows.
C1_Witness ==
    /\ AccidentsCalcules
    /\ \E i, j \in 1..Len(df_accident) :
          /\ df_accident[i].score_gravite = <<110>>
          /\ df_accident[j].score_gravite = Null

(***************************************************************************)
(* C2.  categorie_gravite is decided in priority order on the counts of    *)
(* the row: nb_tues > 0 gives 'Mortel' whatever the other counts, else     *)
(* nb_blesses_hospitalises > 0 gives 'Grave', else nb_blesses_legers > 0   *)
(* gives 'Leger', else 'Materiel uniquement'; no other value occurs.       *)
(***************************************************************************)
C2_CategorieGravite ==
    AccidentsCalcules =>
        \A i \in 1..Len(df_accident) :
            LET r == df_accident[i]
                t == Positive(r.nb_tues)
                h == Positive(r.nb_blesses_hospitalises)
                l == Positive(r.nb_blesses_legers)
            IN  /\ r.categorie_gravite \in
                       {"Mortel", "Grave", "Leger", "Materiel uniquement"}
                /\ (r.categorie_gravite = "Mortel") <=> t
                /\ (r.categorie_gravite = "Grave") <=> (~t /\ h)
                /\ (r.categorie_gravite = "Leger") <=> (~t /\ ~h /\ l)
                /\ (r.categorie_gravite = "Materiel uniquement")
                       <=> (~t /\ ~h /\ ~l)

\* A fatal accident that also has a hospitalized person: the lower class
\* does not win.
C2_Witness ==
    /\ AccidentsCalcules
    /\ \E i \in 1..Len(df_accident) :
          /\ df_accident[i].categorie_gravite = "Mortel"
          /\ Positive(df_accident[i].nb_blesses_hospitalises)

(***************************************************************************)
(* C3.  For every accident that has person rows, nb_usagers equals the     *)
(* number of rows of the raw persons table whose Num_Acc is that accident, *)
(* whatever their other fields hold (a missing id_usager included).        *)
(***************************************************************************)
C3_NbUsagers ==
    AccidentsCalcules =>
        \A i \in 1..Len(df_accident) :
            LET r == df_accident[i]
            IN  UsagersDe(r.Num_Acc) # {} =>
                    r.nb_usagers = <<Cardinality(UsagersDe(r.Num_Acc))>>

(***************************************************************************)
(* C4.  For every accident with at least one person row, nb_tues,          *)
(* nb_blesses_hospitalises, nb_blesses_legers and nb_indemnes are the      *)
(* numbers of its person rows whose severity code is 2, 3, 4 and 1.        *)
(***************************************************************************)
C4_ComptesGravite ==
    AccidentsCalcules =>
        \A i \in 1..Len(df_accident) :
            LET r == df_accident[i]
                a == r.Num_Acc
            IN  UsagersDe(a) # {} =>
                    /\ r.nb_tues = <<NbGrav(a, 2)>>
                    /\ r.nb_blesses_hospitalises = <<NbGrav(a, 3)>>
                    /\ r.nb_blesses_legers = <<NbGrav(a, 4)>>
                    /\ r.nb_indemnes = <<NbGrav(a, 1)>>

\* An accident with one killed and one lightly injured person.
C4_Witness ==
    /\ AccidentsCalcules
    /\ \E i \in 1..Len(df_accident) :
          /\ df_accident[i].nb_tues = <<1>>
          /\ df_accident[i].nb_blesses_legers = <<1>>
          /\ df_accident[i].nb_blesses_hospitalises = <<0>>
          /\ df_accident[i].nb_indemnes = <<0>>

(***************************************************************************)
(* C5.  For every accident, age_moyen is the mean of 2024 - an_nais over   *)
(* its person rows with a known birth year other than -1, and is missing   *)
(* when it has no such row; a person row with birth year -1 is left out of *)
(* the mean and is still counted in nb_usagers.                            *)
(***************************************************************************)
C5_AgeMoyen ==
    AccidentsCalcules =>
        \A i \in 1..Len(df_accident) :
            LET r == df_accident[i]
                a == r.Num_Acc
                valid == {k \in UsagersDe(a) :
                             usagers[k].an_nais \notin {Null, <<-1>>}}
                ages == [k \in valid |-> 2024 - usagers[k].an_nais[1]]
            IN  /\ valid = {} => r.age_moyen = Null
                /\ valid # {} =>
                       /\ Len(r.age_moyen) = 1
                       /\ FracEq(r.age_moyen[1],
                                 [n |-> SumOver(valid, ages),
                                  d |-> Cardinality(valid)])
                /\ (\E k \in UsagersDe(a) : usagers[k].an_nais = <<-1>>) =>
                       r.nb_usagers = <<Cardinality(UsagersDe(a))>>

(***************************************************************************)
(* C6 as stated.  For every accident, pct_hommes is the number of its      *)
(* person rows with sex code 1 divided by the number of its person rows,   *)
(* and is 0 for an accident that has no person rows.                       *)
(***************************************************************************)
C6_PctHommesZeroSansUsager ==
    AccidentsCalcules =>
        \A i \in 1..Len(df_accident) :
            LET r == df_accident[i]
                a == r.Num_Acc
                hommes == {k \in UsagersDe(a) : usagers[k].sexe = <<1>>}
            IN  /\ Len(r.pct_hommes) = 1
                /\ IF UsagersDe(a) = {}
                   THEN r.pct_hommes[1].n = 0
                   ELSE FracEq(r.pct_hommes[1],
                               [n |-> Cardinality(hommes),
                                d |-> Cardinality(UsagersDe(a))])

(***************************************************************************)
(* C6 as amended.  For every accident with at least one person row,        *)
(* pct_hommes is the number of its person rows with sex code 1 divided by  *)
(* the number of its person rows; for an accident that has no person rows  *)
(* pct_hommes is missing.                                                  *)
(***************************************************************************)
C6_PctHommes ==
    AccidentsCalcules =>
        \A i \in 1..Len(df_accident) :
            LET r == df_accident[i]
                a == r.Num_Acc
                hommes == {k \in UsagersDe(a) : usagers[k].sexe = <<1>>}
            IN  IF UsagersDe(a) = {}
                THEN r.pct_hommes = Null
                ELSE /\ Len(r.pct_hommes) = 1
                     /\ FracEq(r.pct_hommes[1],
                               [n |-> Cardinality(hommes),
                                d |-> Cardinality(UsagersDe(a))])

\* An accident with one man among two persons beside an accident without
\* person rows.
C6_Witness ==
    /\ AccidentsCalcules
    /\ \E i, j \in 1..Len(df_accident) :
          /\ df_accident[i].pct_hommes = <<[n |-> 1, d |-> 2]>>
          /\ UsagersDe(df_accident[j].Num_Acc) = {}
          /\ df_accident[j].pct_hommes = Null

(***************************************************************************)
(* C7.  On every row of the accident-grain table accident_mortel is 1 when *)
(* nb_tues is greater than 0 and 0 otherwise; it is 0 on a row whose       *)
(* counts are missing because the accident has no person rows.             *)
(***************************************************************************)
C7_AccidentMortel ==
    AccidentsCalcules =>
        \A i \in 1..Len(df_accident) :
            LET r == df_accident[i]
            IN  /\ r.accident_mortel \in {0, 1}
                /\ (r.accident_mortel = 1) <=> Positive(r.nb_tues)
                /\ UsagersDe(r.Num_Acc) = {} => r.accident_mortel = 0

\* A fatal accident beside an accident without person rows.
C7_Witness ==
    /\ AccidentsCalcules
    /\ \E i, j \in 1..Len(df_accident) :
          /\ df_accident[i].accident_mortel = 1
          /\ df_accident[i].nb_tues = <<1>>
          /\ df_accident[j].accident_mortel = 0
          /\ df_accident[j].nb_tues = Null

(***************************************************************************)
(* Vocabulary of the merge properties: a raw row appears in a person-grain *)
(* table t when some row of t carries its key and its columns.             *)
(***************************************************************************)
NumAccDeCaract == {caract[i].Num_Acc : i \in 1..Len(caract)}

LieuxDe(a) == {i \in 1..Len(lieux) : lieux[i].Num_Acc = a}

VehiculesDe(a) == {i \in 1..Len(vehicules) : vehicules[i].Num_Acc = a}

\* The person rows whose three keys are those of the vehicle row k.
UsagersDuVehicule(k) ==
    {i \in 1..Len(usagers) :
        /\ usagers[i].Num_Acc = vehicules[k].Num_Acc
        /\ usagers[i].id_vehicule = vehicules[k].id_vehicule
        /\ usagers[i].num_veh = vehicules[k].num_veh}

\* The vehicle rows whose three keys are those of the person row i.
VehiculesDeUsager(i) == {k \in 1..Len(vehicules) : i \in UsagersDuVehicule(k)}

\* The person rows of accident a whose two vehicle keys are missing.
UsagersSansCle(a) ==
    {i \in UsagersDe(a) :
        usagers[i].id_vehicule = Null /\ usagers[i].num_veh = Null}

CaractDans(t, c) == \E k \in 1..Len(t) : t[k].Num_Acc = c.Num_Acc

VehiculeDans(t, v) ==
    \E k \in 1..Len(t) :
        /\ t[k].Num_Acc = v.Num_Acc
        /\ t[k].id_vehicule = v.id_vehicule
        /\ t[k].num_veh = v.num_veh

UsagerDans(t, u) ==
    \E k \in 1..Len(t) :
        /\ t[k].Num_Acc = u.Num_Acc
        /\ t[k].id_vehicule = u.id_vehicule
        /\ t[k].num_veh = u.num_veh
        /\ t[k].id_usager = u.id_usager
        /\ t[k].grav = u.grav
        /\ t[k].catu = u.catu
        /\ t[k].sexe = u.sexe
        /\ t[k].an_nais = u.an_nais

Max1(n) == IF n = 0 THEN 1 ELSE n

C9_CardinaliteUsagersPlusVehicules ==
    Termine =>
        Len(fichier_detaille[1]) =
            Len(usagers)
            + Cardinality({k \in 1..Len(vehicules) : UsagersDuVehicule(k) = {}})

\* Rows of the person-grain table that one accident row gives rise to.
LignesParAccident(a) ==
    Max1(Cardinality(LieuxDe(a)))
    * (IF VehiculesDe(a) = {}
       THEN Max1(Cardinality(UsagersSansCle(a)))
       ELSE SumOver(VehiculesDe(a),
                    [k \in VehiculesDe(a) |->
                        Max1(Cardinality(UsagersDuVehicule(k)))]))

\* No orphan and no duplicate: at most one location row and at least one
\* vehicle row per accident row, every vehicle row in an accident of
\* caract, every person row in exactly one vehicle row.
SansOrphelinNiDoublon ==
    /\ \A a \in NumAccDeCaract :
          Cardinality(LieuxDe(a)) <= 1 /\ VehiculesDe(a) # {}
    /\ \A k \in 1..Len(vehicules) : vehicules[k].Num_Acc \in NumAccDeCaract
    /\ \A i \in 1..Len(usagers) : Cardinality(VehiculesDeUsager(i)) = 1

(***************************************************************************)
(* C9 as amended.  The number of rows of the person-grain table is the sum *)
(* over the accident rows of (the number of location rows of the accident, *)
(* 1 if none) times (the sum over its vehicle rows of the number of person *)
(* rows matching the vehicle, 1 if none; for an accident without vehicle   *)
(* row, the number of its person rows whose vehicle keys are both missing, *)
(* 1 if none).  It is the number of person rows plus one for each vehicle  *)
(* row without a matching person when there is no orphan and no duplicate. *)
(***************************************************************************)
C9_CardinaliteFusion ==
    Termine =>
        /\ Len(fichier_detaille[1]) =
               SumOver(NumAccDeCaract,
                       [a \in NumAccDeCaract |-> LignesParAccident(a)])
        /\ SansOrphelinNiDoublon =>
               Len(fichier_detaille[1]) =
                   Len(usagers)
                   + Cardinality({k \in 1..Len(vehicules) :
                                     UsagersDuVehicule(k) = {}})

\* An accident with two location rows, a vehicle with a person and a
\* vehicle without: four rows, where the persons and the vehicles without
\* person number two.
C9_Witness ==
    /\ Termine
    /\ \E a \in NumAccDeCaract :
          /\ Cardinality(LieuxDe(a)) = 2
          /\ \E k, m \in VehiculesDe(a) :
                UsagersDuVehicule(k) # {} /\ UsagersDuVehicule(m) = {}
    /\ Len(usagers) = 1
    /\ Len(fichier_detaille[1]) = 4

(***************************************************************************)
(* C10.  The accident-grain table has exactly one row per row of caract,   *)
(* in the same order, whatever the location, vehicle and person rows; the  *)
(* location attribute of the row is that of the first location row of the  *)
(* accident in input order, and is missing when there is none.             *)
(***************************************************************************)
C10_UneLigneParAccident ==
    AccidentsCalcules =>
        /\ Len(df_accident) = Len(caract)
        /\ \A i \in 1..Len(caract) :
              LET a == caract[i].Num_Acc
              IN  /\ df_accident[i].Num_Acc = a
                  /\ IF LieuxDe(a) = {}
                     THEN df_accident[i].catr = Null
                     ELSE \E k \in LieuxDe(a) :
                             /\ \A m \in LieuxDe(a) : k <= m
                             /\ df_accident[i].catr = lieux[k].catr

\* An accident with two location rows of different road categories, two
\* vehicles and two persons, on one row that carries the first category.
C10_Witness ==
    /\ AccidentsCalcules
    /\ \E a \in NumAccDeCaract :
          /\ LieuxDe(a) = {1, 2}
          /\ lieux[1].catr # lieux[2].catr
          /\ Cardinality(VehiculesDe(a)) = 2
          /\ Cardinality(UsagersDe(a)) = 2
          /\ \E i \in 1..Len(df_accident) :
                /\ df_accident[i].Num_Acc = a
                /\ df_accident[i].catr = lieux[1].catr
                /\ \A j \in 1..Len(df_accident) :
                      df_accident[j].Num_Acc = a => j = i

(***************************************************************************)
(* C11: an accident without any person row is still a row of the           *)
(* accident-grain table, and its eight person aggregates (nb_tues,         *)
(* nb_blesses_hospitalises, nb_blesses_legers, nb_indemnes, nb_pietons,    *)
(* pct_hommes, age_moyen, nb_usagers) are all missing.                     *)
(***************************************************************************)
AgregatsUsagers ==
    {"nb_tues", "nb_blesses_hospitalises", "nb_blesses_legers", "nb_indemnes",
     "nb_pietons", "pct_hommes", "age_moyen", "nb_usagers"}

C11_AgregatsManquantsSansUsager ==
    AccidentsCalcules =>
        \A a \in NumAccDeCaract :
            UsagersDe(a) = {} =>
                /\ \E i \in 1..Len(df_accident) : df_accident[i].Num_Acc = a
                /\ \A i \in 1..Len(df_accident) :
                      df_accident[i].Num_Acc = a =>
                          \A col \in AgregatsUsagers : df_accident[i][col] = Null

\* Two accidents: the first has two persons and counts, the second has no
\* person and is a row whose aggregates are missing.
C11_Witness ==
    /\ AccidentsCalcules
    /\ Len(caract) = 2
    /\ Cardinality(UsagersDe(1)) = 2
    /\ UsagersDe(2) = {}
    /\ Len(df_accident) = 2
    /\ df_accident[1].nb_usagers # Null
    /\ df_accident[2].Num_Acc = 2
    /\ \A col \in AgregatsUsagers : df_accident[2][col] = Null

(***************************************************************************)
(* C12: in <col>_desc, enrichir_colonne writes 'Non renseigne' for every   *)
(* code that is not a key of the mapping of the column and for every       *)
(* missing code, and the mapped label for every code that is a key; it     *)
(* never fails (the step that applies it always completes).                *)
(***************************************************************************)
\* The coded columns of MAPPINGS.
ColonnesCodees == {MappingsItems[n] : n \in 1..Len(MappingsItems)}

\* The label the dictionary states for the raw cell code of column col.
LibelleAttendu(col, code) ==
    IF code = Null THEN NonRenseigne
    ELSE IF \E k \in DOMAIN MAPPINGS[col] : k = Val(code)
         THEN MAPPINGS[col][Val(code)]
         ELSE NonRenseigne

\* Every row of table t has the stated label for each coded column it has.
LibellesConformes(t) ==
    \A i \in 1..Len(t) : \A col \in ColonnesCodees :
        col \in DOMAIN t[i] =>
            /\ (col \o "_desc") \in DOMAIN t[i]
            /\ t[i][col \o "_desc"] = Some(LibelleAttendu(col, t[i][col]))

C12_LibellesDuDictionnaire ==
    /\ DfEnrichi => LibellesConformes(df) /\ Len(df) > 0
    /\ AccidentsCalcules => LibellesConformes(df_accident) /\ Len(df_accident) > 0

\* One accident with a killed person and a person whose severity code -1 is
\* not a key, next to an accident without person (a missing code): the three
\* rows read 'Tue', 'Non renseigne' and 'Non renseigne'.
C12_Witness ==
    /\ DfEnrichi
    /\ Len(caract) = 2
    /\ Len(df) = 3
    /\ df[1].grav = Some(2)  /\ df[1].grav_desc = Some("Tue")
    /\ df[2].grav = Some(-1) /\ df[2].grav_desc = Some("Non renseigne")
    /\ df[3].grav = Null     /\ df[3].grav_desc = Some("Non renseigne")

(***************************************************************************)
(* C13: after the dictionary is applied, <col>_code and <col> both hold    *)
(* the raw value of <col>, no column of the table before it is modified,   *)
(* the only columns it adds are <col>_code and <col>_desc of the coded     *)
(* columns the table has, and for a coded column the table does not have,  *)
(* nothing is added.                                                       *)
(***************************************************************************)
\* The columns the enrichment step derives besides those of the dictionary.
ColonnesDerivees ==
    {"date", "jour_semaine", "periode_journee", "est_weekend", "mois_nom",
     "trimestre", "age", "tranche_age"}

\* Table t is table avant with the dictionary applied: avant's columns are
\* intact and the added columns are those of the coded columns avant has.
DictionnaireApplique(avant, t) ==
    /\ Len(t) = Len(avant)
    /\ \A i \in 1..Len(t) :
          /\ \A c \in DOMAIN avant[i] :
                c \in DOMAIN t[i] /\ t[i][c] = avant[i][c]
          /\ \A col \in ColonnesCodees :
                IF col \in DOMAIN avant[i]
                THEN /\ (col \o "_code") \in DOMAIN t[i]
                     /\ t[i][col \o "_code"] = avant[i][col]
                ELSE /\ (col \o "_code") \notin DOMAIN t[i]
                     /\ (col \o "_desc") \notin DOMAIN t[i]
          /\ \A c \in DOMAIN t[i] :
                \/ c \in DOMAIN avant[i]
                \/ c \in ColonnesDerivees
                \/ \E col \in ColonnesCodees \cap DOMAIN avant[i] :
                      c \in {col \o "_code", col \o "_desc"}

\* The accident-grain table before the dictionary is applied to it, from the
\* raw tables: the accident and its first location row.
AccidentsBruts ==
    [i \in 1..Len(caract) |->
        caract[i] @@
        [catr |-> IF LieuxDe(caract[i].Num_Acc) = {} THEN Null
                  ELSE lieux[CHOOSE k \in LieuxDe(caract[i].Num_Acc) :
                                \A m \in LieuxDe(caract[i].Num_Acc) : k <= m].catr]]

C13_ValeurBruteConservee ==
    /\ DfEnrichi =>
          DictionnaireApplique(FusionTables(caract, lieux, vehicules, usagers), df)
    /\ AccidentsCalcules =>
          /\ Len(df_accident) = Len(AccidentsBruts)
          /\ \A i \in 1..Len(df_accident) :
                /\ \A c \in DOMAIN AccidentsBruts[i] :
                      df_accident[i][c] = AccidentsBruts[i][c]
                /\ df_accident[i].catr_code = AccidentsBruts[i].catr
                /\ df_accident[i].agg_code = AccidentsBruts[i].agg
                /\ \A col \in ColonnesCodees \ {"catr", "agg"} :
                      /\ col \notin DOMAIN df_accident[i]
                      /\ (col \o "_code") \notin DOMAIN df_accident[i]
                      /\ (col \o "_desc") \notin DOMAIN df_accident[i]

\* A person row of severity code 3 keeps 3 in grav and in grav_code, while
\* the accident-grain table, which has no column grav, has no grav_code and
\* has the road category in catr and catr_code.
C13_Witness ==
    /\ AccidentsCalcules
    /\ \E i \in 1..Len(df) :
          /\ df[i].grav = Some(3) /\ df[i].grav_code = Some(3)
          /\ df[i].grav_desc = Some("Blesse hospitalise")
    /\ \E i \in 1..Len(df_accident) :
          /\ "grav_code" \notin DOMAIN df_accident[i]
          /\ df_accident[i].catr = Some(1) /\ df_accident[i].catr_code = Some(1)

(***************************************************************************)
(* C14: periode_journee is decided by the hour h of the time string:       *)
(* 6 <= h < 12 gives 'Matin', 12 <= h < 18 'Apres-midi', 18 <= h < 22      *)
(* 'Soiree' and every other hour 'Nuit'; each hour of 0..23 is in exactly  *)
(* one of the four.                                                        *)
(***************************************************************************)
\* The hours of each time-of-day label.
PlagesHoraires ==
    "Matin" :> 6..11 @@ "Apres-midi" :> 12..17 @@ "Soiree" :> 18..21
    @@ "Nuit" :> ((0..5) \cup (22..23))

\* Every row of t whose time is "HH:30" has the label of the hour HH, and
\* that label is the only one whose hours hold HH.
PeriodesConformes(t) ==
    \A i \in 1..Len(t) : \A h \in 0..23 :
        t[i].hrmn = Some(HeureStr(h)) =>
            /\ t[i].periode_journee \in DOMAIN PlagesHoraires
            /\ \A p \in DOMAIN PlagesHoraires :
                  (t[i].periode_journee = p) <=> (h \in PlagesHoraires[p])

C14_PeriodeJournee ==
    /\ DfJourEnrichi => PeriodesConformes(df)
    /\ AccidentsCalcules => PeriodesConformes(df_accident)

\* An accident at "06:30" is of the morning in both tables, next to the
\* accident at "14:30", of the afternoon.
C14_Witness ==
    /\ AccidentsCalcules
    /\ Len(caract) = 2
    /\ caract[1].hrmn = Some(HeureStr(6))
    /\ df_accident[1].periode_journee = "Matin"
    /\ df[1].periode_journee = "Matin"
    /\ df_accident[2].hrmn = Some(HeureStr(14))
    /\ df_accident[2].periode_journee = "Apres-midi"

(***************************************************************************)
(* C15: for every time that is missing or is not a parseable HH:MM-like    *)
(* string (no numeric hour before the first ':', an hour outside 0..23, or *)
(* no ':' as in "1430"), periode_journee is 'Non renseigne'.               *)
(***************************************************************************)
C15_HeureInvalideNonRenseignee ==
    /\ DfJourEnrichi =>
          \A i \in 1..Len(df) :
              df[i].hrmn \in HeuresInvalides =>
                  df[i].periode_journee = NonRenseigne
    /\ AccidentsCalcules =>
          \A i \in 1..Len(df_accident) :
              df_accident[i].hrmn \in HeuresInvalides =>
                  df_accident[i].periode_journee = NonRenseigne

(***************************************************************************)
(* C16: for every valid Gregorian date, jour_semaine is the French name of *)
(* the day of the week of that date (2024-07-14 is a 'Dimanche'); for a    *)
(* combination of year, month and day that is not a date, or that has a    *)
(* missing component, it is 'Non renseigne'.                               *)
(***************************************************************************)
\* The lengths of the months of a common year.
LongueursDesMois == << 31, 28, 31, 30, 31, 30, 31, 31, 30, 31, 30, 31 >>

Bissextile(y) == (y % 400 = 0) \/ (y % 4 = 0 /\ y % 100 # 0)

\* y-m-d is a date of the calendar.
DateGregorienne(y, m, d) ==
    /\ y \in 1..9999
    /\ m \in 1..12
    /\ d >= 1
    /\ d <= LongueursDesMois[m] + (IF m = 2 /\ Bissextile(y) THEN 1 ELSE 0)

\* The day of the week of the date y-m-d by the month-offset congruence,
\* 0 for Sunday to 6 for Saturday.
DecalagesDesMois == << 0, 3, 2, 5, 0, 3, 5, 1, 4, 6, 2, 4 >>

JourParCongruence(y, m, d) ==
    LET a == IF m < 3 THEN y - 1 ELSE y
    IN  (a + (a \div 4) - (a \div 100) + (a \div 400) + DecalagesDesMois[m] + d) % 7

NomsDepuisDimanche ==
    << "Dimanche", "Lundi", "Mardi", "Mercredi", "Jeudi", "Vendredi", "Samedi" >>

\* The weekday name the calendar gives to the date cells of a row.
JourAttendu(row) ==
    IF row.an = Null \/ row.mois = Null \/ row.jour = Null THEN NonRenseigne
    ELSE IF DateGregorienne(Val(row.an), Val(row.mois), Val(row.jour))
         THEN NomsDepuisDimanche[
                 JourParCongruence(Val(row.an), Val(row.mois), Val(row.jour)) + 1]
         ELSE NonRenseigne

C16_JourSemaine ==
    /\ DfJourEnrichi =>
          \A i \in 1..Len(df) : df[i].jour_semaine = JourAttendu(df[i])
    /\ AccidentsCalcules =>
          \A i \in 1..Len(df_accident) :
              df_accident[i].jour_semaine = JourAttendu(df_accident[i])

\* The 29th of February 2023 is not a date and reads 'Non renseigne', next
\* to the accident of 2024-07-14, a 'Dimanche'.
C16_Witness ==
    /\ AccidentsCalcules
    /\ Len(caract) = 2
    /\ caract[1].an = Some(2023) /\ caract[1].mois = Some(2)
    /\ caract[1].jour = Some(29)
    /\ df_accident[1].jour_semaine = "Non renseigne"
    /\ caract[2].an = Some(2024) /\ caract[2].mois = Some(7)
    /\ caract[2].jour = Some(14)
    /\ df_accident[2].jour_semaine = "Dimanche"
    /\ df[2].jour_semaine = "Dimanche"

(***************************************************************************)
(* C17: in both tables est_weekend is 1 when jour_semaine is 'Samedi' or   *)
(* 'Dimanche' and 0 otherwise, 'Non renseigne' included.                   *)
(***************************************************************************)
WeekendConforme(t) ==
    \A i \in 1..Len(t) :
        /\ t[i].est_weekend \in {0, 1}
        /\ (t[i].est_weekend = 1) <=>
               (t[i].jour_semaine = "Samedi" \/ t[i].jour_semaine = "Dimanche")
        /\ t[i].jour_semaine = NonRenseigne => t[i].est_weekend = 0

C17_EstWeekend ==
    /\ DfJourEnrichi => WeekendConforme(df)
    /\ AccidentsCalcules => WeekendConforme(df_accident)

\* An accident whose day is missing has the sentinel weekday and is not of
\* the weekend, next to the accident of Sunday 2024-07-14, which is.
C17_Witness ==
    /\ AccidentsCalcules
    /\ Len(caract) = 2
    /\ caract[1].jour = Null
    /\ df_accident[1].jour_semaine = NonRenseigne
    /\ df_accident[1].est_weekend = 0
    /\ df[1].est_weekend = 0
    /\ df_accident[2].jour_semaine = "Dimanche"
    /\ df_accident[2].est_weekend = 1
    /\ df[2].est_weekend = 1

(***************************************************************************)
(* C18: in both tables, for every month value the raw table carries,       *)
(* trimestre is an integer of 1..4 equal to ((mois - 1) // 3) + 1 and      *)
(* mois_nom is one of the twelve month names.                              *)
(***************************************************************************)
TrimestreEtMoisConformes(t) ==
    \A i \in 1..Len(t) :
        /\ t[i].trimestre # Null
        /\ Val(t[i].trimestre) \in 1..4
        /\ Val(t[i].trimestre) = ((Val(t[i].mois) - 1) \div 3) + 1
        /\ \E m \in 1..12 : t[i].mois_nom = Some(mois_noms[m])

C18_TrimestreEtNomDuMois ==
    /\ DfEnrichi => TrimestreEtMoisConformes(df)
    /\ AccidentsCalcules => TrimestreEtMoisConformes(df_accident)

(***************************************************************************)
(* C19: a missing or out-of-range year, month or day on one accident row   *)
(* never ends the run on an exception: the run writes both files, that row *)
(* has the sentinel weekday when its cells are not a date and a missing    *)
(* month name and quarter when its month is missing or not of 1..12, and   *)
(* the rows of the other accidents are intact.                             *)
(***************************************************************************)
\* The date cells of the row are those of the reference date, 2024-07-14.
DateDeReference(row) ==
    row.an = Some(2024) /\ row.mois = Some(7) /\ row.jour = Some(14)

MoisValide(row) == row.mois # Null /\ Val(row.mois) \in 1..12

C19_DateMalformeeSansAbandon ==
    /\ pc # "echec_enrichissement"
    /\ Termine =>
          /\ fichier_detaille = Some(df)
          /\ fichier_synthese = Some(df_accident)
          /\ Len(df_accident) = Len(caract)
          /\ \A i \in 1..Len(df_accident) :
                LET row == df_accident[i]
                IN  /\ row.Num_Acc = caract[i].Num_Acc
                    /\ JourAttendu(caract[i]) = NonRenseigne =>
                          row.jour_semaine = NonRenseigne
                    /\ ~MoisValide(caract[i]) =>
                          row.mois_nom = Null /\ row.trimestre = Null
                    /\ DateDeReference(caract[i]) =>
                          /\ row.jour_semaine = "Dimanche"
                          /\ row.mois_nom = Some("Juillet")
                          /\ row.trimestre = Some(3)

(***************************************************************************)
(* C20: when one of the four input files is missing or unreadable the run  *)
(* ends without writing any output file, and in every run the four reads   *)
(* and every derivation step are complete before the first output file is  *)
(* written: a run that ends on an exception has written nothing, and a     *)
(* written file means that the four tables were read, that both tables are *)
(* fully derived and that the file holds the whole table.                  *)
(***************************************************************************)
\* A column of each derivation step of the person-grain table.
ColonnesDeDf == {"catr", "grav", "jour_semaine", "trimestre", "age", "grav_desc"}

\* A column of each derivation step of the accident-grain table.
ColonnesDeDfAccident ==
    {"nb_usagers", "nb_vehicules", "score_gravite", "categorie_gravite",
     "accident_mortel", "catr", "catr_desc", "jour_semaine", "trimestre"}

AucuneSortie == fichier_detaille = Null /\ fichier_synthese = Null

C20_EcritureApresToutesLesEtapes ==
    /\ Echec => AucuneSortie
    /\ pc \in {"chargement", "fusion", "enrichissement", "agregations",
               "sauvegarde"} => AucuneSortie
    /\ ~AucuneSortie =>
          /\ caract # <<>> /\ lieux # <<>> /\ vehicules # <<>> /\ usagers # <<>>
          /\ df # <<>> /\ df_accident # <<>>
          /\ \A i \in 1..Len(df) : ColonnesDeDf \subseteq DOMAIN df[i]
          /\ \A i \in 1..Len(df_accident) :
                ColonnesDeDfAccident \subseteq DOMAIN df_accident[i]
          /\ fichier_detaille = Some(df)
          /\ fichier_synthese \in {Null, Some(df_accident)}

\* The persons file is missing: the three tables before it are read, the
\* run has ended and no output file exists.
C20_Witness ==
    /\ pc = "echec_chargement"
    /\ caract # <<>> /\ lieux # <<>> /\ vehicules # <<>>
    /\ usagers = <<>>
    /\ df = <<>> /\ df_accident = <<>>
    /\ AucuneSortie

(***************************************************************************)
(* C21: the aggregates of an accident (the four severity counts,           *)
(* nb_pietons, pct_hommes, age_moyen, nb_usagers, nb_vehicules,            *)
(* score_gravite, categorie_gravite, accident_mortel) depend only on the   *)
(* person and vehicle rows of that accident: whatever the rows of the      *)
(* other accidents hold, malformed ones included, the run gives the        *)
(* accident the aggregates that its own rows alone give.                   *)
(***************************************************************************)
ColonnesAgregats ==
    {"nb_tues", "nb_blesses_hospitalises", "nb_blesses_legers", "nb_indemnes",
     "nb_pietons", "pct_hommes", "age_moyen", "nb_usagers", "nb_vehicules",
     "score_gravite", "categorie_gravite", "accident_mortel"}

\* The rows of table t whose Num_Acc is a.
LignesDe(t, a) == SelectSeq(t, LAMBDA r : r.Num_Acc = a)

\* The aggregates of the accident of row c of caract when the raw tables
\* hold its rows and no row of another accident.
AgregatsSeuls(c) ==
    LET seul == AggregerAccidents(<<c>>, LignesDe(lieux, c.Num_Acc),
                                  LignesDe(vehicules, c.Num_Acc),
                                  LignesDe(usagers, c.Num_Acc))[1]
    IN  [col \in ColonnesAgregats |-> seul[col]]

\* The run is over: both files are written, or the enrichment failed.
RunFini == Termine \/ pc = "echec_enrichissement"

C21_AgregatsIndependants ==
    RunFini =>
        \A i \in 1..Len(caract) :
            caract[i].mois # Null =>
                \E k \in 1..Len(df_accident) :
                    /\ df_accident[k].Num_Acc = caract[i].Num_Acc
                    /\ [col \in ColonnesAgregats |-> df_accident[k][col]]
                          = AgregatsSeuls(caract[i])

C26_SommeDesComptes ==
    AccidentsCalcules =>
        \A i \in 1..Len(df_accident) :
            UsagersDe(df_accident[i].Num_Acc) # {} =>
                /\ df_accident[i].nb_usagers # Null
                /\ Val(df_accident[i].nb_tues)
                   + Val(df_accident[i].nb_blesses_hospitalises)
                   + Val(df_accident[i].nb_blesses_legers)
                   + Val(df_accident[i].nb_indemnes)
                      = Val(df_accident[i].nb_usagers)

(***************************************************************************)
(* C27: for every accident that has person rows, the number of rows of the *)
(* person-grain table that carry a person of the accident equals           *)
(* nb_usagers on the row of the accident in the accident-grain table,      *)
(* whatever the raw tables hold (several location rows for the accident,   *)
(* person rows whose vehicle key is the key of no vehicle row).            *)
(***************************************************************************)
\* The rows of df of accident a that carry a person.
LignesAvecUsager(a) ==
    {k \in 1..Len(df) : df[k].Num_Acc = a /\ df[k].id_usager # Null}

C27_CoherenceEntreTables ==
    AccidentsCalcules =>
        \A i \in 1..Len(df_accident) :
            UsagersDe(df_accident[i].Num_Acc) # {} =>
                df_accident[i].nb_usagers
                   = Some(Cardinality(LignesAvecUsager(df_accident[i].Num_Acc)))

(***************************************************************************)
(* C29: an accident is classed 'Materiel uniquement' exactly when its      *)
(* score_gravite is 0, its score is positive exactly when it is classed    *)
(* 'Mortel', 'Grave' or 'Leger', and an accident whose counts are missing  *)
(* is not classed 'Materiel uniquement'.                                   *)
(***************************************************************************)
C29_MaterielSiScoreNul ==
    AccidentsCalcules =>
        \A i \in 1..Len(df_accident) :
            LET row == df_accident[i]
            IN  /\ (row.categorie_gravite = "Materiel uniquement")
                      <=> (row.score_gravite = Some(0))
                /\ Gt0(row.score_gravite)
                      <=> (row.categorie_gravite \in {"Mortel", "Grave", "Leger"})
                /\ (row.nb_tues = Null \/ row.nb_blesses_hospitalises = Null
                      \/ row.nb_blesses_legers = Null)
                      => row.categorie_gravite # "Materiel uniquement"

(***************************************************************************)
(* C24 as stated: for every accident, nb_pietons equals the number of its  *)
(* person rows whose user category is 3 (pedestrian) and nb_vehicules the  *)
(* number of vehicle rows whose Num_Acc is that accident.                  *)
(***************************************************************************)
NbPietons(a) == Cardinality({i \in UsagersDe(a) : usagers[i].catu = Some(3)})

C24_PietonsEtVehicules ==
    AccidentsCalcules =>
        \A i \in 1..Len(df_accident) :
            LET a == df_accident[i].Num_Acc
            IN  /\ df_accident[i].nb_pietons = Some(NbPietons(a))
                /\ df_accident[i].nb_vehicules = Some(Cardinality(VehiculesDe(a)))

(***************************************************************************)
(* C24 as amended: for every accident with at least one person row,        *)
(* nb_pietons is the number of its person rows whose user category is 3,   *)
(* and it is missing for an accident without person rows; for every        *)
(* accident with at least one vehicle row, nb_vehicules is the number of   *)
(* its vehicle rows, and it is missing for an accident without vehicle     *)
(* rows.                                                                   *)
(***************************************************************************)
C24_PietonsEtVehiculesOuManquant ==
    AccidentsCalcules =>
        \A i \in 1..Len(df_accident) :
            LET a == df_accident[i].Num_Acc
            IN  /\ df_accident[i].nb_pietons =
                      (IF UsagersDe(a) = {} THEN Null ELSE Some(NbPietons(a)))
                /\ df_accident[i].nb_vehicules =
                      (IF VehiculesDe(a) = {} THEN Null
                       ELSE Some(Cardinality(VehiculesDe(a))))

\* Accident 1 has two vehicles and two persons, a pedestrian and a
\* pedestrian on roller, and counts one pedestrian; accident 2 has no person
\* and no vehicle and both numbers are missing.
C24_Witness ==
    /\ AccidentsCalcules
    /\ Len(caract) = 2
    /\ Cardinality(VehiculesDe(1)) = 2 /\ VehiculesDe(2) = {}
    /\ Cardinality(UsagersDe(1)) = 2 /\ UsagersDe(2) = {}
    /\ \E i, j \in UsagersDe(1) :
          usagers[i].catu = Some(3) /\ usagers[j].catu = Some(4)
    /\ df_accident[1].nb_pietons = Some(1)
    /\ df_accident[1].nb_vehicules = Some(2)
    /\ df_accident[2].nb_pietons = Null
    /\ df_accident[2].nb_vehicules = Null

(***************************************************************************)
(* C28: every age of 0..100 gets the age bucket whose label holds it       *)
(* (0..17 '0-17', 18..24 '18-24', 25..34 '25-34', 35..44 '35-44',          *)
(* 45..54 '45-54', 55..64 '55-64', 65..100 '65+'), and a missing age       *)
(* (birth year missing or -1) gets a missing bucket.                       *)
(***************************************************************************)
\* The ages each label names.
AgesDesTranches ==
    "0-17" :> 0..17 @@ "18-24" :> 18..24 @@ "25-34" :> 25..34
    @@ "35-44" :> 35..44 @@ "45-54" :> 45..54 @@ "55-64" :> 55..64
    @@ "65+" :> 65..100

C28_TrancheAge ==
    DfEnrichi =>
        \A i \in 1..Len(df) :
            /\ (df[i].an_nais = Null \/ df[i].an_nais = Some(-1)) =>
                  df[i].age = Null /\ df[i].tranche_age = Null
            /\ (df[i].age # Null /\ Val(df[i].age) \in 0..100) =>
                  /\ df[i].tranche_age # Null
                  /\ Val(df[i].age) \in AgesDesTranches[Val(df[i].tranche_age)]

(***************************************************************************)
(* C30.  Every month name the pipeline can write into mois_nom is a key of *)
(* the dashboard's month_order, so that after load_data every accident     *)
(* whose month is in 1..12 has mois_num equal to the number of its month.  *)
(* Does not hold: the pipeline writes 'Février', 'Août' and 'Décembre'     *)
(* with their accents and month_order holds them without, so the accidents *)
(* of months 2, 8 and 12 have no mois_num.                                 *)
(***************************************************************************)
\* The dashboard holds the loaded table.
TableauCharge == pc \in {"tableau_charge", "tableau_filtre"}

C30_MoisNumEstLeMois ==
    TableauCharge =>
        \A i \in 1..Len(tableau) :
            (tableau[i].mois # Null /\ Val(tableau[i].mois) \in 1..12)
                => /\ Val(tableau[i].mois_nom) \in DOMAIN month_order
                   /\ tableau[i].mois_num = tableau[i].mois

(***************************************************************************)
(* C23.  On load, every latitude and every longitude that arrives written  *)
(* with a decimal comma becomes the number it writes ('48,85' becomes      *)
(* 48.85), whatever the type the other coordinate column arrived in, and a *)
(* coordinate that writes no number after the comma is replaced becomes a  *)
(* missing cell of its row: the load is not aborted.                       *)
(* Does not hold: both conversions are run only when the column lat is of  *)
(* dtype object, and astype(float) raises on a text that writes no number. *)
(***************************************************************************)
\* The numbers the comma-decimal texts explored write.
CoordonneesVirgule ==
    { [txt |-> LatDeReference,  val |-> Decimal(4885, 2)],
      [txt |-> LongDeReference, val |-> Decimal(235, 2)] }

\* The texts explored that write no number once the comma is replaced.
CoordonneesNonNumeriques == { << "a", "b", "c" >>, << "x" >> }

\* load_data has run, to its end or to an exception.
LoadDataFini == pc \in {"tableau_charge", "tableau_filtre", "echec_load_data"}

C23_CoordonneesNormalisees ==
    LoadDataFini =>
        /\ pc # "echec_load_data"
        /\ \A i \in 1..Len(tableau), col \in {"lat", "long"} :
              /\ \A c \in CoordonneesVirgule :
                    caract[i][col] = Some(c.txt)
                        => tableau[i][col] = Some(Flottant(c.val))
              /\ (caract[i][col] # Null
                    /\ Val(caract[i][col]) \in CoordonneesNonNumeriques)
                        => tableau[i][col] = Null

(***************************************************************************)
(* C25.  After the filters are applied, every accident of the filtered     *)
(* view satisfies every filter: its date lies in the selected range, its   *)
(* department is in the selected set (an empty set meaning all             *)
(* departments), its categorie_gravite is a member of the selected         *)
(* severity set, its road type is the selected one unless 'Tous' is        *)
(* selected, its agglomeration label is the selected zone unless 'Tous' is *)
(* selected; and the loaded table is left as load_data returned it.        *)
(* Does not hold as stated: an empty severity set filters nothing, as an   *)
(* empty department set does, and the view then holds accidents whose      *)
(* category is no member of the selected set.                              *)
(***************************************************************************)
\* The filters have been applied.
TableauFiltre == pc = "tableau_filtre"

\* The row r passes the date, department, road type and zone filters.  The
\* date is tested once both ends of the range are picked.
PasseLesAutresFiltres(r) ==
    /\ Len(selection.date_range) = 2 =>
          /\ r.date # Null
          /\ DateLe(selection.date_range[1], Val(r.date))
          /\ DateLe(Val(r.date), selection.date_range[2])
    /\ selection.selected_dept # {} =>
          r.dep # Null /\ Val(r.dep) \in selection.selected_dept
    /\ selection.selected_road # "Tous" =>
          r.catr_desc = Some(selection.selected_road)
    /\ selection.selected_agg # "Tous" =>
          r.agg_desc = Some(selection.selected_agg)

\* The view is made of rows of the loaded table, which filtering leaves as
\* load_data returned it.
VueDuTableauInchange ==
    /\ tableau = load_data(Val(fichier_synthese))
    /\ \A k \in 1..Len(df_filtered) :
          \E i \in 1..Len(tableau) : df_filtered[k] = tableau[i]

C25_VueSatisfaitLesFiltres ==
    TableauFiltre =>
        /\ VueDuTableauInchange
        /\ \A k \in 1..Len(df_filtered) :
              /\ PasseLesAutresFiltres(df_filtered[k])
              /\ df_filtered[k].categorie_gravite \in selection.selected_severities

\* C25, amended: an empty severity set means all categories.
C25_VueSatisfaitLesFiltresChoisis ==
    TableauFiltre =>
        /\ VueDuTableauInchange
        /\ \A k \in 1..Len(df_filtered) :
              /\ PasseLesAutresFiltres(df_filtered[k])
              /\ selection.selected_severities # {} =>
                    df_filtered[k].categorie_gravite \in selection.selected_severities

\* Every filter is set, and the view holds one of the two accidents loaded.
C25_Witness ==
    /\ TableauFiltre
    /\ Len(selection.date_range) = 2
    /\ selection.selected_dept # {}
    /\ selection.selected_severities # {}
    /\ selection.selected_road # "Tous"
    /\ selection.selected_agg # "Tous"
    /\ Len(tableau) = 2
    /\ Len(df_filtered) = 1

====
